---- MODULE Spec2Model ----
(***************************************************************************)
(* A model of Botan's TLS::Channel (src/src/tls/tls_channel.cpp): the      *)
(* record/handshake-state orchestrator.  The Channel's fields are the      *)
(* variables; every public or protected member function is an operator on  *)
(* a channel record, and an action applies one whole call to the state.    *)
(*                                                                         *)
(* An optional object (a unique_ptr) is a sequence of length 0 or 1.       *)
(* A failure that leaves a call is the field err of the result.            *)
(* Sizes are scaled: the 128 and MAX_PLAINTEXT_SIZE of                     *)
(* set_maximum_fragment_size are MinFragment and MaxPlaintext here.        *)
(***************************************************************************)
EXTENDS Integers, Sequences, FiniteSets, TLC

VARIABLES
    m_active_state,       \* optional Handshake_State
    m_pending_state,      \* optional Handshake_State
    m_sequence_numbers,   \* optional Connection_Sequence_Numbers
    m_read_cipherstate,   \* optional Connection_Cipher_State
    m_write_cipherstate,  \* optional Connection_Cipher_State
    m_connection_closed,  \* bool
    m_max_fragment,       \* size_t
    m_readbuf,            \* bytes of a record not yet complete
    side,                 \* Connection_Side of the derived class
    output,               \* m_output_fn calls of the last operation
    delivered,            \* m_proc_fn calls of the last operation
    removed,              \* m_session_manager.remove_entry calls of the last operation
    thrown,               \* the failure the last operation raised, or NoError
    op,                   \* the last operation and its input
    stream,               \* chunked feeding: the bytes not yet fed
    fed                   \* chunked feeding: m_proc_fn calls of all calls so far

vars == <<m_active_state, m_pending_state, m_sequence_numbers,
          m_read_cipherstate, m_write_cipherstate, m_connection_closed,
          m_max_fragment, m_readbuf, side, output, delivered, removed,
          thrown, op, stream, fed>>

(***************************************************************************)
(* Bounds of the model.                                                    *)
(***************************************************************************)
MaxSendLen == 5          \* longest application buffer given to send
MaxSeq == 3              \* cap of the per-epoch record counters
MaxSendSeq == 5          \* the same cap where long buffers are sent
MaxEpoch == 2            \* cap of the cipher epochs (handshakes per direction)
MinFragment == 2         \* the 128 of set_maximum_fragment_size, scaled
MaxPlaintext == 5        \* MAX_PLAINTEXT_SIZE, scaled
MaxStreamRecords == 3    \* records after the handshake in a chunked stream
MaxLoopRecords == 1      \* the same where every chunk ahead is tried

(***************************************************************************)
(* Optional values.                                                        *)
(***************************************************************************)
None == <<>>
Some(x) == <<x>>
Has(o) == Len(o) = 1
Get(o) == o[1]

Min(a, b) == IF a < b THEN a ELSE b
Max(a, b) == IF a < b THEN b ELSE a

(***************************************************************************)
(* Record types, handshake types, alert codes (tls_magic.h, tls_alert.h).  *)
(***************************************************************************)
CHANGE_CIPHER_SPEC == 20
ALERT == 21
HANDSHAKE == 22
APPLICATION_DATA == 23
HEARTBEAT == 24
NO_RECORD == 256

CLIENT_HELLO == 1
SERVER_HELLO == 2
FINISHED == 20
HANDSHAKE_CCS == 100
HANDSHAKE_NONE == 255

CLOSE_NOTIFY == 0
UNEXPECTED_MESSAGE == 10
RECORD_OVERFLOW == 22
HANDSHAKE_FAILURE == 40
DECODE_ERROR == 50
INTERNAL_ERROR == 80
USER_CANCELED == 90
NO_RENEGOTIATION == 100
NULL_ALERT == 256
HEARTBEAT_PAYLOAD == 257

NO_COMPRESSION == 0

CLIENT == 1
SERVER == 2

(***************************************************************************)
(* Protocol_Version: <<major, minor>>.                                     *)
(***************************************************************************)
TLS_V10 == <<3, 1>>
DTLS_V10 == <<254, 255>>

is_datagram_protocol(v) == v[1] = 254
supports_explicit_cbc_ivs(v) == v # TLS_V10

(***************************************************************************)
(* Alert: a type code and the fatal flag.                                  *)
(***************************************************************************)
Alert(type, fatal) == [type |-> type, fatal |-> fatal]
NullAlert == Alert(NULL_ALERT, FALSE)
is_valid(a) == a.type # NULL_ALERT
serialize(a) == <<(IF a.fatal THEN 2 ELSE 1), a.type>>
\* Alert::Alert(const std::vector<byte>&): two bytes, level 1 or 2
AlertDecodes(buf) == Len(buf) = 2 /\ buf[1] \in {1, 2}
AlertParse(buf) == Alert(buf[2], buf[1] = 2)

(***************************************************************************)
(* Failures.                                                               *)
(***************************************************************************)
NoError == [kind |-> "none", type |-> NULL_ALERT]
TLS_Exception(type) == [kind |-> "TLS_Exception", type |-> type]
Unexpected_Message == TLS_Exception(UNEXPECTED_MESSAGE)
Decoding_Error == [kind |-> "Decoding_Error", type |-> NULL_ALERT]
Internal_Error == [kind |-> "Internal_Error", type |-> NULL_ALERT]
runtime_error == [kind |-> "runtime_error", type |-> NULL_ALERT]
\* BOTAN_ASSERT: assertion_failure raises a std::runtime_error
Assertion_Failure == [kind |-> "assertion_failure", type |-> NULL_ALERT]

Throw(c, e) == [c EXCEPT !.err = e]
Ok(c) == c.err = NoError

(***************************************************************************)
(* Connection_Sequence_Numbers (tls_seq_numbers.h): per-direction record   *)
(* counters and cipher epochs.  The transport family is fixed at creation. *)
(***************************************************************************)
NewSequenceNumbers(datagram) ==
    [datagram |-> datagram, write_seq |-> 0, read_seq |-> 0,
     write_epoch |-> 0, read_epoch |-> 0]

new_read_cipher_state(s) ==
    [s EXCEPT !.read_seq = 0, !.read_epoch = @ + 1]

new_write_cipher_state(s) ==
    [s EXCEPT !.write_seq = 0, !.write_epoch = @ + 1]

next_write_sequence(s) == [s EXCEPT !.write_seq = @ + 1]

next_read_sequence(s) == s.read_seq

read_accept(s, sequence) == [s EXCEPT !.read_seq = sequence + 1]

(***************************************************************************)
(* Handshake_State (tls_handshake_state.h): the version, the peer's hello  *)
(* once seen, the reassembly buffer of its Handshake_IO, the verify-data   *)
(* of the finished messages.                                               *)
(***************************************************************************)
new_handshake_state(datagram_io) ==
    [version |-> <<0, 0>>, datagram_io |-> datagram_io, hello |-> None,
     ccs_read |-> FALSE, queue |-> <<>>,
     client_finished |-> <<>>, server_finished |-> <<>>]

(***************************************************************************)
(* Connection_Cipher_State (tls_record.h): built from the pending state's  *)
(* version and ciphersuite; cbc_without_explicit_iv is a block cipher      *)
(* under a version before TLS 1.1.                                         *)
(***************************************************************************)
Connection_Cipher_State(version, cs_side, hello) ==
    [version |-> version, side |-> cs_side,
     cbc_without_explicit_iv |->
         hello.cbc /\ ~supports_explicit_cbc_ivs(version)]

(***************************************************************************)
(* The channel as a record: the operators below are the member functions.  *)
(***************************************************************************)
Chan ==
    [active |-> m_active_state, pending |-> m_pending_state,
     seq |-> m_sequence_numbers, rcs |-> m_read_cipherstate,
     wcs |-> m_write_cipherstate, closed |-> m_connection_closed,
     maxfrag |-> m_max_fragment, readbuf |-> m_readbuf, side |-> side,
     out |-> <<>>, proc |-> <<>>, removed |-> <<>>, err |-> NoError,
     ret |-> 0, output_fails |-> FALSE, at_proc |-> <<>>, turns |-> 0]

\* Channel::Channel: no state, no sequence numbers, no cipher states
NewChannel(s) ==
    [active |-> None, pending |-> None, seq |-> None, rcs |-> None,
     wcs |-> None, closed |-> FALSE, maxfrag |-> MaxPlaintext,
     readbuf |-> <<>>, side |-> s,
     out |-> <<>>, proc |-> <<>>, removed |-> <<>>, err |-> NoError,
     ret |-> 0, output_fails |-> FALSE, at_proc |-> <<>>, turns |-> 0]

\* bool is_active() const (tls_channel.h)
is_active(c) == Has(c.active) /\ ~c.closed

\* a failure ends the call: what follows runs only after a clean step
Bind(c, Rest(_)) == IF Ok(c) THEN Rest(c) ELSE c

\* catch(...) { /* swallow it */ }: the effects stay, the failure is dropped
Swallow(c) == [c EXCEPT !.err = NoError]

\* Channel::write_record, lines 395-416
write_record(c, record_type, input) ==
    IF Len(input) > c.maxfrag THEN Throw(c, Internal_Error)
    ELSE IF ~(Has(c.pending) \/ Has(c.active)) THEN Throw(c, Assertion_Failure)
    ELSE IF ~Has(c.seq) THEN Throw(c, Assertion_Failure)
    ELSE IF c.output_fails
    THEN Throw([c EXCEPT !.seq = Some(next_write_sequence(Get(c.seq)))],
               runtime_error)
    ELSE [c EXCEPT
            !.seq = Some(next_write_sequence(Get(c.seq))),
            !.out = Append(@,
                [type |-> record_type,
                 version |-> IF Has(c.pending) THEN Get(c.pending).version
                             ELSE Get(c.active).version,
                 epoch |-> Get(c.seq).write_epoch,
                 sequence |-> Get(c.seq).write_seq,
                 protected |-> Has(c.wcs),
                 payload |-> input])]

RECURSIVE SendFragments(_, _, _)
\* the while(length) loop of send_record_array, lines 380-387
SendFragments(c, type, input) ==
    IF Len(input) = 0 THEN c
    ELSE Bind(write_record(c, type, SubSeq(input, 1, Min(Len(input), c.maxfrag))),
              LAMBDA c1 : SendFragments(c1, type,
                              SubSeq(input, Min(Len(input), c.maxfrag) + 1,
                                     Len(input))))

\* send_record_array without the input += 1 of line 376
send_record_array_repeats_first(c, type, input) ==
    IF Len(input) = 0 THEN c
    ELSE IF type = APPLICATION_DATA /\ ~Has(c.wcs)
    THEN Throw(c, [kind |-> "null_dereference", type |-> NULL_ALERT])
    ELSE IF type = APPLICATION_DATA /\ Get(c.wcs).cbc_without_explicit_iv
    THEN Bind(write_record(c, type, SubSeq(input, 1, 1)),
              LAMBDA c1 : SendFragments(c1, type, input))
    ELSE SendFragments(c, type, input)

\* send_record_array without the type == APPLICATION_DATA of line 373
send_record_array_any_type(c, type, input) ==
    IF Len(input) = 0 THEN c
    ELSE IF Has(c.wcs) /\ Get(c.wcs).cbc_without_explicit_iv
    THEN Bind(write_record(c, type, SubSeq(input, 1, 1)),
              LAMBDA c1 : SendFragments(c1, type, Tail(input)))
    ELSE SendFragments(c, type, input)

\* Channel::send_record_array, lines 357-388
send_record_array(c, type, input) ==
    IF Len(input) = 0 THEN c
    ELSE IF type = APPLICATION_DATA /\ ~Has(c.wcs)
    THEN Throw(c, [kind |-> "null_dereference", type |-> NULL_ALERT])
    ELSE IF type = APPLICATION_DATA /\ Get(c.wcs).cbc_without_explicit_iv
    THEN Bind(write_record(c, type, SubSeq(input, 1, 1)),
              LAMBDA c1 : SendFragments(c1, type, Tail(input)))
    ELSE SendFragments(c, type, input)

\* Channel::send_record, lines 390-393
send_record(c, record_type, record) == send_record_array(c, record_type, record)

\* send without the is_active test of line 420
send_unguarded(c, buf) == send_record_array(c, APPLICATION_DATA, buf)

\* Channel::send, lines 418-424
send(c, buf) ==
    IF ~is_active(c) THEN Throw(c, runtime_error)
    ELSE send_record_array(c, APPLICATION_DATA, buf)

\* lines 433-440 without the try and catch of lines 435-439
AlertEmitted_not_swallowed(c, alert) ==
    IF is_valid(alert) /\ ~c.closed
    THEN send_record(c, ALERT, serialize(alert))
    ELSE c

\* lines 433-440 without the !m_connection_closed of line 433
AlertEmitted_when_closed(c, alert) ==
    IF is_valid(alert)
    THEN Swallow(send_record(c, ALERT, serialize(alert)))
    ELSE c

\* lines 433-440: the alert record goes out unless closed or not valid
AlertEmitted(c, alert) ==
    IF is_valid(alert) /\ ~c.closed
    THEN Swallow(send_record(c, ALERT, serialize(alert)))
    ELSE c

\* lines 442-443 with a reset of m_active_state added
PendingAborted_with_active(c, alert) ==
    IF alert.type = NO_RENEGOTIATION
    THEN [c EXCEPT !.pending = None, !.active = None]
    ELSE c

\* lines 442-443
PendingAborted(c, alert) ==
    IF alert.type = NO_RENEGOTIATION THEN [c EXCEPT !.pending = None] ELSE c

\* lines 445-446 without the alert.is_fatal() of line 445
SessionRemoved_by_any_alert(c, alert) ==
    IF Has(c.active) /\ Has(Get(c.active).hello)
    THEN [c EXCEPT !.removed = Append(@, Get(Get(c.active).hello).session_id)]
    ELSE c

\* lines 445-446
SessionRemoved(c, alert) ==
    IF alert.fatal /\ Has(c.active) /\ Has(Get(c.active).hello)
    THEN [c EXCEPT !.removed = Append(@, Get(Get(c.active).hello).session_id)]
    ELSE c

\* lines 448-455 with a reset of m_sequence_numbers added
ConnectionClosed_drops_sequence_numbers(c, alert) ==
    IF alert.type = CLOSE_NOTIFY \/ alert.fatal
    THEN [c EXCEPT !.active = None, !.pending = None, !.wcs = None,
                   !.seq = None, !.closed = TRUE]
    ELSE c

\* lines 448-455 without the alert.is_fatal() of line 448
ConnectionClosed_only_close_notify(c, alert) ==
    IF alert.type = CLOSE_NOTIFY
    THEN [c EXCEPT !.active = None, !.pending = None, !.wcs = None,
                   !.closed = TRUE]
    ELSE c

\* lines 448-455
ConnectionClosed(c, alert) ==
    IF alert.type = CLOSE_NOTIFY \/ alert.fatal
    THEN [c EXCEPT !.active = None, !.pending = None, !.wcs = None,
                   !.closed = TRUE]
    ELSE c

\* Channel::send_alert, lines 431-456
send_alert(c, alert) ==
    ConnectionClosed(
        SessionRemoved(PendingAborted(AlertEmitted(c, alert), alert), alert),
        alert)

\* create_handshake_state without the test of lines 61-71
create_handshake_state_any_family(c, version) ==
    IF Has(c.pending) THEN Throw(c, Internal_Error)
    ELSE [c EXCEPT
            !.seq = IF ~Has(c.seq)
                    THEN Some(NewSequenceNumbers(is_datagram_protocol(version)))
                    ELSE c.seq,
            !.pending =
                IF Has(c.active)
                THEN Some([new_handshake_state(is_datagram_protocol(version))
                              EXCEPT !.version = Get(c.active).version])
                ELSE Some(new_handshake_state(is_datagram_protocol(version)))]

\* create_handshake_state without the test of lines 58-59
create_handshake_state_unguarded(c, version) ==
    IF Has(c.active)
       /\ is_datagram_protocol(Get(c.active).version)
            # is_datagram_protocol(version)
    THEN Throw(c, runtime_error)
    ELSE [c EXCEPT
            !.seq = IF ~Has(c.seq)
                    THEN Some(NewSequenceNumbers(is_datagram_protocol(version)))
                    ELSE c.seq,
            !.pending =
                IF Has(c.active)
                THEN Some([new_handshake_state(is_datagram_protocol(version))
                              EXCEPT !.version = Get(c.active).version])
                ELSE Some(new_handshake_state(is_datagram_protocol(version)))]

\* Channel::create_handshake_state, lines 54-97
create_handshake_state(c, version) ==
    IF Has(c.pending) THEN Throw(c, Internal_Error)
    ELSE IF Has(c.active)
            /\ is_datagram_protocol(Get(c.active).version)
                 # is_datagram_protocol(version)
    THEN Throw(c, runtime_error)
    ELSE [c EXCEPT
            !.seq = IF ~Has(c.seq)
                    THEN Some(NewSequenceNumbers(is_datagram_protocol(version)))
                    ELSE c.seq,
            !.pending =
                IF Has(c.active)
                THEN Some([new_handshake_state(is_datagram_protocol(version))
                              EXCEPT !.version = Get(c.active).version])
                ELSE Some(new_handshake_state(is_datagram_protocol(version)))]

\* initiate_handshake (virtual, Client/Server): the hello (request) goes out
\* through the new state's Handshake_IO, that is through send_record
initiate_handshake(c, force_full_renegotiation) ==
    send_record(c, HANDSHAKE,
                <<(IF c.side = CLIENT THEN CLIENT_HELLO ELSE 0), 0>>)

\* renegotiate without the test of lines 101-102
renegotiate_unguarded(c, force_full_renegotiation) ==
    IF ~Has(c.active) THEN Throw(c, runtime_error)
    ELSE Bind(create_handshake_state(c, Get(c.active).version),
              LAMBDA c1 : initiate_handshake(c1, force_full_renegotiation))

\* Channel::renegotiate, lines 99-109
renegotiate(c, force_full_renegotiation) ==
    IF Has(c.pending) THEN c
    ELSE IF ~Has(c.active) THEN Throw(c, runtime_error)
    ELSE Bind(create_handshake_state(c, Get(c.active).version),
              LAMBDA c1 : initiate_handshake(c1, force_full_renegotiation))

\* Channel::set_maximum_fragment_size, lines 111-117
set_maximum_fragment_size(c, max_fragment) ==
    IF max_fragment = 0 THEN [c EXCEPT !.maxfrag = MaxPlaintext]
    ELSE [c EXCEPT !.maxfrag =
              Max(MinFragment, Min(max_fragment, MaxPlaintext))]

\* change_cipher_spec_reader that replaces the write cipher state as well
change_cipher_spec_reader_both(c, cs_side) ==
    IF ~(Has(c.pending) /\ Has(Get(c.pending).hello))
    THEN Throw(c, Assertion_Failure)
    ELSE IF Get(Get(c.pending).hello).compression_method # NO_COMPRESSION
    THEN Throw(c, Internal_Error)
    ELSE IF ~Has(c.seq) THEN Throw(c, Assertion_Failure)
    ELSE [c EXCEPT
            !.seq = Some(new_write_cipher_state(
                             new_read_cipher_state(Get(c.seq)))),
            !.rcs = Some(Connection_Cipher_State(
                            Get(c.pending).version,
                            IF cs_side = CLIENT THEN SERVER ELSE CLIENT,
                            Get(Get(c.pending).hello))),
            !.wcs = Some(Connection_Cipher_State(
                            Get(c.pending).version, cs_side,
                            Get(Get(c.pending).hello)))]

\* Channel::change_cipher_spec_reader, lines 119-138
change_cipher_spec_reader(c, cs_side) ==
    IF ~(Has(c.pending) /\ Has(Get(c.pending).hello))
    THEN Throw(c, Assertion_Failure)
    ELSE IF Get(Get(c.pending).hello).compression_method # NO_COMPRESSION
    THEN Throw(c, Internal_Error)
    ELSE IF ~Has(c.seq) THEN Throw(c, Assertion_Failure)
    ELSE [c EXCEPT
            !.seq = Some(new_read_cipher_state(Get(c.seq))),
            !.rcs = Some(Connection_Cipher_State(
                            Get(c.pending).version,
                            IF cs_side = CLIENT THEN SERVER ELSE CLIENT,
                            Get(Get(c.pending).hello)))]

\* change_cipher_spec_writer that leaves the sequence numbers alone
change_cipher_spec_writer_same_epoch(c, cs_side) ==
    IF ~(Has(c.pending) /\ Has(Get(c.pending).hello))
    THEN Throw(c, Assertion_Failure)
    ELSE IF Get(Get(c.pending).hello).compression_method # NO_COMPRESSION
    THEN Throw(c, Internal_Error)
    ELSE IF ~Has(c.seq) THEN Throw(c, Assertion_Failure)
    ELSE [c EXCEPT
            !.wcs = Some(Connection_Cipher_State(
                            Get(c.pending).version, cs_side,
                            Get(Get(c.pending).hello)))]

\* change_cipher_spec_writer that tests the compression method after the
\* sequence numbers were told of the new cipher state
change_cipher_spec_writer_late_check(c, cs_side) ==
    IF ~(Has(c.pending) /\ Has(Get(c.pending).hello))
    THEN Throw(c, Assertion_Failure)
    ELSE IF ~Has(c.seq) THEN Throw(c, Assertion_Failure)
    ELSE IF Get(Get(c.pending).hello).compression_method # NO_COMPRESSION
    THEN Throw([c EXCEPT !.seq = Some(new_write_cipher_state(Get(c.seq)))],
               Internal_Error)
    ELSE [c EXCEPT
            !.seq = Some(new_write_cipher_state(Get(c.seq))),
            !.wcs = Some(Connection_Cipher_State(
                            Get(c.pending).version, cs_side,
                            Get(Get(c.pending).hello)))]

\* Channel::change_cipher_spec_writer, lines 140-156
change_cipher_spec_writer(c, cs_side) ==
    IF ~(Has(c.pending) /\ Has(Get(c.pending).hello))
    THEN Throw(c, Assertion_Failure)
    ELSE IF Get(Get(c.pending).hello).compression_method # NO_COMPRESSION
    THEN Throw(c, Internal_Error)
    ELSE IF ~Has(c.seq) THEN Throw(c, Assertion_Failure)
    ELSE [c EXCEPT
            !.seq = Some(new_write_cipher_state(Get(c.seq))),
            !.wcs = Some(Connection_Cipher_State(
                            Get(c.pending).version, cs_side,
                            Get(Get(c.pending).hello)))]

\* activate_session without the reset of line 161
activate_session_keeps_pending(c) ==
    [c EXCEPT !.active = c.pending]

\* activate_session that also clears m_connection_closed
activate_session_reopens(c) ==
    [c EXCEPT !.active = c.pending, !.pending = None, !.closed = FALSE]

\* Channel::activate_session, lines 158-162
activate_session(c) ==
    [c EXCEPT !.active = c.pending, !.pending = None]

\* Channel::peer_supports_heartbeats, lines 164-169
peer_supports_heartbeats(c) ==
    IF Has(c.active) /\ Has(Get(c.active).hello)
    THEN Get(Get(c.active).hello).supports_heartbeats
    ELSE FALSE

(***************************************************************************)
(* Renegotiation binding, lines 458-521.  The state's hello stands for     *)
(* both client_hello() and server_hello(): the negotiated parameters.      *)
(***************************************************************************)
\* Channel::secure_renegotiation_data_for_client_hello, lines 504-509
secure_renegotiation_data_for_client_hello(c) ==
    IF Has(c.active) THEN Get(c.active).client_finished ELSE <<>>

\* Channel::secure_renegotiation_data_for_server_hello, lines 511-521
secure_renegotiation_data_for_server_hello(c) ==
    IF Has(c.active)
    THEN Get(c.active).client_finished \o Get(c.active).server_finished
    ELSE <<>>

\* secure_renegotiation_check that does not compare the verify data
secure_renegotiation_check_client_hello_any_data(c, client_hello) ==
    IF Has(c.active)
       /\ Get(Get(c.active).hello).secure_renegotiation
            # client_hello.secure_renegotiation
    THEN Throw(c, TLS_Exception(HANDSHAKE_FAILURE))
    ELSE c

\* Channel::secure_renegotiation_check(const Client_Hello*), lines 458-479
secure_renegotiation_check_client_hello(c, client_hello) ==
    IF Has(c.active)
       /\ Get(Get(c.active).hello).secure_renegotiation
            # client_hello.secure_renegotiation
    THEN Throw(c, TLS_Exception(HANDSHAKE_FAILURE))
    ELSE IF client_hello.secure_renegotiation
            /\ client_hello.renegotiation_info
                 # secure_renegotiation_data_for_client_hello(c)
    THEN Throw(c, TLS_Exception(HANDSHAKE_FAILURE))
    ELSE c

\* secure_renegotiation_check that expects the client's verify data alone
secure_renegotiation_check_server_hello_client_data(c, server_hello) ==
    IF Has(c.active)
       /\ Get(Get(c.active).hello).secure_renegotiation
            # server_hello.secure_renegotiation
    THEN Throw(c, TLS_Exception(HANDSHAKE_FAILURE))
    ELSE IF server_hello.secure_renegotiation
            /\ server_hello.renegotiation_info
                 # secure_renegotiation_data_for_client_hello(c)
    THEN Throw(c, TLS_Exception(HANDSHAKE_FAILURE))
    ELSE c

\* Channel::secure_renegotiation_check(const Server_Hello*), lines 481-502
secure_renegotiation_check_server_hello(c, server_hello) ==
    IF Has(c.active)
       /\ Get(Get(c.active).hello).secure_renegotiation
            # server_hello.secure_renegotiation
    THEN Throw(c, TLS_Exception(HANDSHAKE_FAILURE))
    ELSE IF server_hello.secure_renegotiation
            /\ server_hello.renegotiation_info
                 # secure_renegotiation_data_for_server_hello(c)
    THEN Throw(c, TLS_Exception(HANDSHAKE_FAILURE))
    ELSE c

\* the longest context: its length has to fit a 16-bit field, line 554
MaxContext == 65535

\* key_material_export that rejects a context of MaxContext bytes as well
key_material_export_short_context(c, context_size, length) ==
    IF ~Has(c.active) THEN Throw(c, runtime_error)
    ELSE IF context_size # 0 /\ context_size >= MaxContext
    THEN Throw(c, runtime_error)
    ELSE [c EXCEPT !.ret = length]

\* Channel::key_material_export, lines 532-562 (const): the context by its
\* length, the key by the length asked for
key_material_export(c, context_size, length) ==
    IF ~Has(c.active) THEN Throw(c, runtime_error)
    ELSE IF context_size # 0 /\ context_size > MaxContext
    THEN Throw(c, runtime_error)
    ELSE [c EXCEPT !.ret = length]

(***************************************************************************)
(* The handshake logic of the derived class (Client/Server), reduced to    *)
(* the calls it makes into the Channel.  A handshake message is            *)
(* <<type, length>> followed by length body bytes.  The peer's hello body  *)
(* is a flags byte (1 secure renegotiation, 2 heartbeats, 4 block cipher,  *)
(* 8 a compression method) followed by the renegotiation info.             *)
(***************************************************************************)
HelloDecode(body) ==
    [secure_renegotiation |-> (body[1] % 2) = 1,
     supports_heartbeats |-> ((body[1] \div 2) % 2) = 1,
     cbc |-> ((body[1] \div 4) % 2) = 1,
     compression_method |-> (body[1] \div 8) % 2,
     renegotiation_info |-> Tail(body),
     session_id |-> body[1]]

PeerHello(c) == IF c.side = SERVER THEN CLIENT_HELLO ELSE SERVER_HELLO
OwnVerifyData(c) == IF c.side = SERVER THEN <<9>> ELSE <<8>>

SetPending(c, st) == [c EXCEPT !.pending = Some(st)]

\* the hello is checked against the active handshake, then kept
HelloAccepted(c, hello) ==
    SetPending(c,
        [Get(c.pending) EXCEPT
            !.hello = Some(hello),
            !.version = IF Has(c.active) THEN Get(c.active).version
                        ELSE IF Get(c.pending).datagram_io THEN DTLS_V10
                        ELSE TLS_V10])

ProcessHello(c, body) ==
    IF Has(Get(c.pending).hello) THEN Throw(c, Unexpected_Message)
    ELSE IF Len(body) = 0 THEN Throw(c, Decoding_Error)
    ELSE Bind(IF c.side = SERVER
              THEN secure_renegotiation_check_client_hello(c, HelloDecode(body))
              ELSE secure_renegotiation_check_server_hello(c, HelloDecode(body)),
              LAMBDA c1 : HelloAccepted(c1, HelloDecode(body)))

ProcessCCS(c) ==
    IF ~Has(Get(c.pending).hello) \/ Get(c.pending).ccs_read
    THEN Throw(c, Unexpected_Message)
    ELSE Bind(change_cipher_spec_reader(c, c.side),
              LAMBDA c1 : SetPending(c1, [Get(c1.pending) EXCEPT !.ccs_read = TRUE]))

\* the peer's finished: ours goes out under the new write cipher state
ProcessFinished(c, body) ==
    IF ~Get(c.pending).ccs_read THEN Throw(c, Unexpected_Message)
    ELSE IF Len(body) # 1 THEN Throw(c, Decoding_Error)
    ELSE Bind(send_record(
                  SetPending(c,
                      [Get(c.pending) EXCEPT
                          !.client_finished =
                              IF c.side = SERVER THEN body ELSE OwnVerifyData(c),
                          !.server_finished =
                              IF c.side = SERVER THEN OwnVerifyData(c) ELSE body]),
                  CHANGE_CIPHER_SPEC, <<1>>),
              LAMBDA c1 :
                  Bind(change_cipher_spec_writer(c1, c1.side),
                       LAMBDA c2 :
                           Bind(send_record(c2, HANDSHAKE,
                                            <<FINISHED, 1>> \o OwnVerifyData(c2)),
                                activate_session)))

\* process_handshake_msg (virtual, Client/Server)
process_handshake_msg(c, type, body) ==
    IF type = PeerHello(c) THEN ProcessHello(c, body)
    ELSE IF type = HANDSHAKE_CCS THEN ProcessCCS(c)
    ELSE IF type = FINISHED THEN ProcessFinished(c, body)
    ELSE Throw(c, Unexpected_Message)

(***************************************************************************)
(* Handshake_IO (tls_handshake_io.h): reassembly of handshake messages.    *)
(***************************************************************************)
SetQueue(c, queue) ==
    [c EXCEPT !.pending = Some([Get(c.pending) EXCEPT !.queue = queue])]

\* Stream_Handshake_IO::add_input
add_input(c, rec_type, record) ==
    IF rec_type = CHANGE_CIPHER_SPEC
    THEN IF record # <<1>> THEN Throw(c, Decoding_Error)
         ELSE SetQueue(c, Get(c.pending).queue \o <<HANDSHAKE_CCS, 0>>)
    ELSE SetQueue(c, Get(c.pending).queue \o record)

\* Stream_Handshake_IO::get_next_record: is a whole message buffered
HasFullMessage(queue) == Len(queue) >= 2 /\ Len(queue) >= 2 + queue[2]

(***************************************************************************)
(* The record codec's read_record (tls_record.cpp): fills m_readbuf up to  *)
(* the header, then up to the whole record; reports the bytes still        *)
(* needed, or the record with m_readbuf emptied.  The payload is taken as  *)
(* is: the cipher is outside the model.                                    *)
(***************************************************************************)
TLS_HEADER_SIZE == 5

NoRecord(readbuf, consumed, needed, seq) ==
    [needed |-> needed, consumed |-> consumed, rec_type |-> NO_RECORD,
     record |-> <<>>, version |-> <<0, 0>>, sequence |-> 0,
     readbuf |-> readbuf, seq |-> seq]

\* the bytes of buf from position from on, at most as many as want
Take(buf, from, want) == SubSeq(buf, from, Min(Len(buf), from + want - 1))

\* with the header in rb (taken bytes of buf are used up): the body
ReadBody(rb, buf, taken, seq) ==
    IF Len(rb) + Len(buf) - taken < TLS_HEADER_SIZE + 256 * rb[4] + rb[5]
    THEN NoRecord(rb \o Take(buf, taken + 1, Len(buf)), Len(buf),
                  TLS_HEADER_SIZE + 256 * rb[4] + rb[5]
                      - (Len(rb) + Len(buf) - taken),
                  seq)
    ELSE [needed |-> 0,
          consumed |-> taken + TLS_HEADER_SIZE + 256 * rb[4] + rb[5] - Len(rb),
          rec_type |-> rb[1],
          record |-> SubSeq(rb, TLS_HEADER_SIZE + 1, Len(rb))
                       \o Take(buf, taken + 1,
                               TLS_HEADER_SIZE + 256 * rb[4] + rb[5] - Len(rb)),
          version |-> <<rb[2], rb[3]>>,
          sequence |-> IF Has(seq) THEN next_read_sequence(Get(seq)) ELSE 0,
          readbuf |-> <<>>,
          seq |-> IF Has(seq)
                  THEN Some(read_accept(Get(seq), next_read_sequence(Get(seq))))
                  ELSE seq]

read_record(readbuf, buf, seq) ==
    IF Len(readbuf) + Len(buf) < TLS_HEADER_SIZE
    THEN NoRecord(readbuf \o buf, Len(buf),
                  TLS_HEADER_SIZE - (Len(readbuf) + Len(buf)), seq)
    ELSE IF Len(readbuf) >= TLS_HEADER_SIZE
    THEN ReadBody(readbuf, buf, 0, seq)
    ELSE ReadBody(readbuf \o Take(buf, 1, TLS_HEADER_SIZE - Len(readbuf)), buf,
                  TLS_HEADER_SIZE - Len(readbuf), seq)

(***************************************************************************)
(* Channel::received_data, lines 178-344.                                  *)
(***************************************************************************)
\* what the application sees of the channel from inside m_proc_fn: the
\* records emitted so far by the call, Active, the cipher states, the flag
Observed(c) ==
    [out |-> c.out, active |-> c.active, rcs |-> c.rcs, wcs |-> c.wcs,
     closed |-> c.closed]

\* a call of m_proc_fn (lines 267, 281, 290)
Deliver(c, data, alert) ==
    [c EXCEPT !.proc = Append(@, [data |-> data, alert |-> alert]),
              !.at_proc = Append(@, Observed(c))]

RECURSIVE DrainMessages(_)
\* lines 233-243 as an if: one message is processed, the rest stays
NextMessage_only_one(c, queue) ==
    process_handshake_msg(
        SetQueue(c, SubSeq(queue, 3 + queue[2], Len(queue))),
        queue[1], SubSeq(queue, 3, 2 + queue[2]))

\* the next message leaves the reassembly buffer and is processed
NextMessage(c, queue) ==
    Bind(process_handshake_msg(
             SetQueue(c, SubSeq(queue, 3 + queue[2], Len(queue))),
             queue[1], SubSeq(queue, 3, 2 + queue[2])),
         DrainMessages)

\* the while(m_pending_state) loop, lines 233-243
DrainMessages(c) ==
    IF ~Has(c.pending) THEN c
    ELSE IF ~HasFullMessage(Get(c.pending).queue) THEN c
    ELSE NextMessage(c, Get(c.pending).queue)

\* lines 224-228 without the read_accept of line 227
StateForRecord_without_read_accept(c, r) ==
    IF ~Has(c.pending)
    THEN create_handshake_state(c, r.version)
    ELSE c

\* lines 224-228
StateForRecord(c, r) ==
    IF ~Has(c.pending)
    THEN Bind(create_handshake_state(c, r.version),
              LAMBDA a : [a EXCEPT !.seq =
                             Some(read_accept(Get(a.seq), r.sequence))])
    ELSE c

\* lines 222-244
HandshakeRecord(c, r) ==
    Bind(StateForRecord(c, r),
         LAMBDA c1 : Bind(add_input(c1, r.rec_type, r.record), DrainMessages))

\* lines 245-269 without the test of line 256
HeartbeatRecord_answers_during_handshake(c, r) ==
    IF ~Has(c.active) THEN Throw(c, Unexpected_Message)
    ELSE IF Len(r.record) = 0 \/ r.record[1] \notin {1, 2}
    THEN Throw(c, Decoding_Error)
    ELSE IF r.record[1] = 1
    THEN send_record(c, HEARTBEAT, <<2>> \o Tail(r.record))
    ELSE Deliver(c, Tail(r.record), Alert(HEARTBEAT_PAYLOAD, FALSE))

\* lines 245-269; Heartbeat_Message: <<1 request | 2 response>> and payload
HeartbeatRecord(c, r) ==
    IF ~Has(c.active) THEN Throw(c, Unexpected_Message)
    ELSE IF Len(r.record) = 0 \/ r.record[1] \notin {1, 2}
    THEN Throw(c, Decoding_Error)
    ELSE IF r.record[1] = 1
    THEN IF ~Has(c.pending)
         THEN send_record(c, HEARTBEAT, <<2>> \o Tail(r.record))
         ELSE c
    ELSE Deliver(c, Tail(r.record), Alert(HEARTBEAT_PAYLOAD, FALSE))

\* lines 270-282 without the test of lines 272-273
ApplicationDataRecord_without_active(c, r) ==
    IF Len(r.record) > 0 THEN Deliver(c, r.record, NullAlert)
    ELSE c

\* lines 270-282 without the test of line 280
ApplicationDataRecord_delivers_empty(c, r) ==
    IF ~Has(c.active) THEN Throw(c, Unexpected_Message)
    ELSE Deliver(c, r.record, NullAlert)

\* lines 270-282
ApplicationDataRecord(c, r) ==
    IF ~Has(c.active) THEN Throw(c, Unexpected_Message)
    ELSE IF Len(r.record) > 0 THEN Deliver(c, r.record, NullAlert)
    ELSE c

\* lines 292-297 without the reset of line 296
CloseNotifyReceived_keeps_read_state(c) ==
    IF ~c.closed THEN send_alert(c, Alert(CLOSE_NOTIFY, FALSE)) ELSE c

\* lines 292-297: the reply in kind, then the read cipher state goes
CloseNotifyReceived(c) ==
    [(IF ~c.closed THEN send_alert(c, Alert(CLOSE_NOTIFY, FALSE)) ELSE c)
        EXCEPT !.rcs = None]

\* lines 298-314 without the reset of line 311
FatalAlertReceived_keeps_read_state(c) ==
    [SessionRemoved(c, Alert(NULL_ALERT, TRUE))
        EXCEPT !.closed = TRUE, !.active = None, !.pending = None,
               !.wcs = None]

\* lines 298-314: delete state immediately
FatalAlertReceived(c) ==
    [SessionRemoved(c, Alert(NULL_ALERT, TRUE))
        EXCEPT !.closed = TRUE, !.active = None, !.pending = None,
               !.wcs = None, !.rcs = None]

\* lines 292-315, after the alert was delivered
AlertActedOn(c, alert_msg) ==
    IF alert_msg.type = CLOSE_NOTIFY THEN CloseNotifyReceived(c)
    ELSE IF alert_msg.fatal THEN FatalAlertReceived(c)
    ELSE c

\* lines 283-315 with the m_proc_fn call of line 290 moved behind line 314
AlertRecord_delivers_last(c, r) ==
    IF ~AlertDecodes(r.record) THEN Throw(c, Decoding_Error)
    ELSE Deliver(AlertActedOn(PendingAborted(c, AlertParse(r.record)),
                              AlertParse(r.record)),
                 <<>>, AlertParse(r.record))

\* lines 283-315
AlertRecord(c, r) ==
    IF ~AlertDecodes(r.record) THEN Throw(c, Decoding_Error)
    ELSE AlertActedOn(
             Deliver(PendingAborted(c, AlertParse(r.record)),
                     <<>>, AlertParse(r.record)),
             AlertParse(r.record))

\* the alert branch without the return 0 of line 313
StopsAfter_never(r) == FALSE

\* the return 0 of line 313
StopsAfter(r) ==
    /\ r.rec_type = ALERT
    /\ AlertDecodes(r.record)
    /\ AlertParse(r.record).type # CLOSE_NOTIFY
    /\ AlertParse(r.record).fatal

\* the dispatch on rec_type, lines 222-319
ProcessRecord(c, r) ==
    IF r.rec_type = HANDSHAKE \/ r.rec_type = CHANGE_CIPHER_SPEC
    THEN HandshakeRecord(c, r)
    ELSE IF r.rec_type = HEARTBEAT /\ peer_supports_heartbeats(c)
    THEN HeartbeatRecord(c, r)
    ELSE IF r.rec_type = APPLICATION_DATA THEN ApplicationDataRecord(c, r)
    ELSE IF r.rec_type = ALERT THEN AlertRecord(c, r)
    ELSE Throw(c, Unexpected_Message)

RECURSIVE ReceiveLoop(_, _)
\* lines 203-320: one turn of the loop once read_record has returned r
AfterRead(c, rest, r) ==
    IF Len(rest) = 0 /\ r.needed # 0 THEN [c EXCEPT !.ret = r.needed]
    ELSE IF r.rec_type = NO_RECORD THEN ReceiveLoop(c, rest)
    ELSE IF Len(r.record) > c.maxfrag
    THEN Throw(c, TLS_Exception(RECORD_OVERFLOW))
    ELSE Bind(ProcessRecord(c, r),
              LAMBDA c2 : IF StopsAfter(r) THEN [c2 EXCEPT !.ret = 0]
                          ELSE ReceiveLoop(c2, rest))

\* lines 189-207 with a buffer of the call's own in place of m_readbuf
ReadOne_local_buffer(c, buf, r) ==
    AfterRead([c EXCEPT !.readbuf = <<>>, !.seq = r.seq],
              SubSeq(buf, r.consumed + 1, Len(buf)), r)

\* lines 189-207: read_record, then buf += consumed
ReadOne(c, buf, r) ==
    AfterRead([c EXCEPT !.readbuf = r.readbuf, !.seq = r.seq],
              SubSeq(buf, r.consumed + 1, Len(buf)), r)

\* the while(buf_size) loop, lines 182-322
ReceiveLoop(c, buf) ==
    IF Len(buf) = 0 THEN [c EXCEPT !.ret = 0]
    ELSE ReadOne([c EXCEPT !.turns = @ + 1], buf,
                 read_record(c.readbuf, buf, c.seq))

\* the alert of the catch clauses, lines 324-343
\* catch clauses that send INTERNAL_ERROR for a TLS_Exception as well
AlertOfFailure_drops_type(e) ==
    IF e.kind = "Decoding_Error" THEN Alert(DECODE_ERROR, TRUE)
    ELSE Alert(INTERNAL_ERROR, TRUE)

AlertOfFailure(e) ==
    IF e.kind = "TLS_Exception" THEN Alert(e.type, TRUE)
    ELSE IF e.kind = "Decoding_Error" THEN Alert(DECODE_ERROR, TRUE)
    ELSE Alert(INTERNAL_ERROR, TRUE)

\* catch clauses that rethrow without send_alert
Caught_without_alert(c) == c

\* lines 324-343: send_alert, then throw
Caught(c) ==
    IF Ok(c) THEN c
    ELSE Bind(send_alert(Swallow(c), AlertOfFailure(c.err)),
              LAMBDA a : Throw(a, c.err))

\* Channel::received_data, lines 178-344
received_data(c, buf) == Caught(ReceiveLoop(c, buf))

(***************************************************************************)
(* Inputs.                                                                 *)
(***************************************************************************)
\* a record on the wire: type, version, 16-bit length, payload
Wire(type, version, payload) ==
    <<type, version[1], version[2], Len(payload) \div 256, Len(payload) % 256>>
        \o payload

HelloMsg(kind, flags, info) == <<kind, 1 + Len(info), flags>> \o info
FinishedMsg == <<FINISHED, 1, 5>>

\* a hello from the peer of side s with these flags
HelloRecord(s, version, flags, info) ==
    Wire(HANDSHAKE, version,
         HelloMsg(IF s = SERVER THEN CLIENT_HELLO ELSE SERVER_HELLO, flags, info))

\* a hello of the wrong direction
WrongHelloRecord(s) ==
    Wire(HANDSHAKE, TLS_V10,
         HelloMsg(IF s = SERVER THEN SERVER_HELLO ELSE CLIENT_HELLO, 4, <<>>))

CCSRecord == Wire(CHANGE_CIPHER_SPEC, TLS_V10, <<1>>)
FinishedRecord == Wire(HANDSHAKE, TLS_V10, FinishedMsg)

\* a whole handshake in one buffer
HandshakeBuffer(s, flags) ==
    HelloRecord(s, TLS_V10, flags, <<>>) \o CCSRecord \o FinishedRecord

AlertRecord_(level, type) == Wire(ALERT, TLS_V10, <<level, type>>)
DataRecord(d) == Wire(APPLICATION_DATA, TLS_V10, d)

AlertRecords ==
    { AlertRecord_(1, CLOSE_NOTIFY), AlertRecord_(2, CLOSE_NOTIFY),
      AlertRecord_(2, HANDSHAKE_FAILURE), AlertRecord_(1, NO_RENEGOTIATION),
      AlertRecord_(1, USER_CANCELED), AlertRecord_(3, CLOSE_NOTIFY) }

DataRecords ==
    { DataRecord(<<>>), DataRecord(<<7>>),
      DataRecord([i \in 1..(MaxPlaintext + 1) |-> 7]) }

OtherRecords ==
    { Wire(HEARTBEAT, TLS_V10, <<1, 6>>), Wire(HEARTBEAT, TLS_V10, <<2, 6>>),
      Wire(99, TLS_V10, <<7>>) }

\* what the peer of side s sends: single records and two buffers of several
Inputs(s) ==
    { HelloRecord(s, TLS_V10, 4, <<>>), HelloRecord(s, TLS_V10, 3, <<>>),
      WrongHelloRecord(s), CCSRecord, FinishedRecord }
    \cup AlertRecords \cup DataRecords \cup OtherRecords
    \cup { HandshakeBuffer(s, 4),
           AlertRecord_(2, HANDSHAKE_FAILURE) \o DataRecord(<<7>>) }

Bytes(n) == [i \in 1..n |-> i]

SendBufs == { Bytes(0), Bytes(2) }

AppAlerts ==
    { Alert(CLOSE_NOTIFY, FALSE), Alert(NO_RENEGOTIATION, FALSE),
      Alert(USER_CANCELED, FALSE), Alert(INTERNAL_ERROR, TRUE), NullAlert }

(***************************************************************************)
(* The state machine.                                                      *)
(***************************************************************************)
NoStream == [records |-> <<>>, bytes |-> <<>>, pos |-> 0]

Install(c) ==
    /\ m_active_state' = c.active
    /\ m_pending_state' = c.pending
    /\ m_sequence_numbers' = c.seq
    /\ m_read_cipherstate' = c.rcs
    /\ m_write_cipherstate' = c.wcs
    /\ m_connection_closed' = c.closed
    /\ m_max_fragment' = c.maxfrag
    /\ m_readbuf' = c.readbuf
    /\ side' = c.side
    /\ output' = c.out
    /\ delivered' = c.proc
    /\ removed' = c.removed
    /\ thrown' = c.err

\* the counters stay within the model's bounds
WithinBounds(c, cap) ==
    Has(c.seq) =>
        /\ Get(c.seq).write_seq <= cap
        /\ Get(c.seq).read_seq <= cap
        /\ Get(c.seq).write_epoch <= MaxEpoch
        /\ Get(c.seq).read_epoch <= MaxEpoch

Call(name, arg, c, cap) ==
    /\ WithinBounds(c, cap)
    /\ Install(c)
    /\ op' = [name |-> name, arg |-> arg]

InitChannel ==
    /\ side \in {CLIENT, SERVER}
    /\ m_active_state = None
    /\ m_pending_state = None
    /\ m_sequence_numbers = None
    /\ m_read_cipherstate = None
    /\ m_write_cipherstate = None
    /\ m_connection_closed = FALSE
    /\ m_max_fragment = MaxPlaintext
    /\ m_readbuf = <<>>
    /\ output = <<>>
    /\ delivered = <<>>
    /\ removed = <<>>
    /\ thrown = NoError
    /\ op = [name |-> "Channel", arg |-> <<>>]
    /\ fed = <<>>

Init == InitChannel /\ stream = NoStream

\* whole records arrive: m_readbuf is empty between the calls
ReceivedDataFrom(bufs, cap) ==
    \E buf \in bufs :
        /\ Call("received_data", <<>>, received_data(Chan, buf), cap)
        /\ UNCHANGED <<stream, fed>>

SendFrom(bufs, cap) ==
    \E buf \in bufs :
        /\ Call("send", buf, send(Chan, buf), cap)
        /\ UNCHANGED <<stream, fed>>

ReceivedData == ReceivedDataFrom(Inputs(side), MaxSeq)

Send == SendFrom(SendBufs, MaxSeq)

SendAlert ==
    \E alert \in AppAlerts :
        /\ Call("send_alert", alert, send_alert(Chan, alert), MaxSeq)
        /\ UNCHANGED <<stream, fed>>

Renegotiate ==
    \E force \in BOOLEAN :
        /\ Call("renegotiate", <<>>, renegotiate(Chan, force), MaxSeq)
        /\ UNCHANGED <<stream, fed>>

CreateHandshakeState ==
    \E version \in {TLS_V10, DTLS_V10} :
        /\ Call("create_handshake_state", version,
                create_handshake_state(Chan, version), MaxSeq)
        /\ UNCHANGED <<stream, fed>>

Next ==
    \/ ReceivedData
    \/ Send
    \/ SendAlert
    \/ Renegotiate
    \/ CreateHandshakeState

Spec == Init /\ [][Next]_vars

\* the alerts alone: what the peer sends, what the application sends, and
\* the renegotiations between them
NextAlerts ==
    \/ ReceivedData
    \/ SendAlert
    \/ Renegotiate

SpecAlerts == Init /\ [][NextAlerts]_vars

(***************************************************************************)
(* Sending: a handshake, a negotiated fragment size, then application data *)
(* of every length up to MaxSendLen.                                       *)
(***************************************************************************)
Handshake ==
    ReceivedDataFrom({HandshakeBuffer(side, 4), HandshakeBuffer(side, 3)},
                     MaxSendSeq)

SetMaximumFragmentSize ==
    \E max_fragment \in 0..(MaxPlaintext + 1) :
        /\ Call("set_maximum_fragment_size", max_fragment,
                set_maximum_fragment_size(Chan, max_fragment), MaxSendSeq)
        /\ UNCHANGED <<stream, fed>>

SendLong == SendFrom({ Bytes(n) : n \in 0..MaxSendLen }, MaxSendSeq)

NextSend ==
    \/ Handshake
    \/ SetMaximumFragmentSize
    \/ SendLong

SpecSend == Init /\ [][NextSend]_vars

(***************************************************************************)
(* Chunked feeding: a stream of whole records, a handshake and then up to  *)
(* MaxStreamRecords records, is cut anywhere into received_data calls.     *)
(***************************************************************************)
TailRecords ==
    { DataRecord(<<7>>), DataRecord(<<>>), AlertRecord_(1, USER_CANCELED),
      AlertRecord_(1, CLOSE_NOTIFY), AlertRecord_(2, HANDSHAKE_FAILURE) }

RECURSIVE Tails(_)
Tails(n) ==
    IF n = 0 THEN { <<>> }
    ELSE Tails(n - 1)
           \cup { Append(t, r) : t \in { x \in Tails(n - 1) : Len(x) = n - 1 },
                                 r \in TailRecords }

RECURSIVE Flatten(_)
Flatten(records) ==
    IF records = <<>> THEN <<>> ELSE Head(records) \o Flatten(Tail(records))

StreamsOf(s) ==
    { [records |-> t, bytes |-> HandshakeBuffer(s, 4) \o Flatten(t), pos |-> 0] :
         t \in Tails(MaxStreamRecords) }

InitChunk == InitChannel /\ stream \in StreamsOf(side)

\* one received_data call with the next k bytes of the stream; op.arg tells
\* whether an earlier call has fed the bytes before them
Fed(k, c) ==
    /\ Install(c)
    /\ op' = [name |-> "received_data", arg |-> stream.pos > 0]
    /\ stream' = [stream EXCEPT !.pos = @ + k]
    /\ fed' = fed \o c.proc

FeedChunk ==
    \E k \in 1..(Len(stream.bytes) - stream.pos) :
        Fed(k, received_data(Chan,
                   SubSeq(stream.bytes, stream.pos + 1, stream.pos + k)))

NextChunk == FeedChunk

SpecChunk == InitChunk /\ [][NextChunk]_vars

\* the same with short streams
InitLoop ==
    /\ InitChannel
    /\ stream \in { s \in StreamsOf(side) : Len(s.records) <= MaxLoopRecords }

SpecLoop == InitLoop /\ [][NextChunk]_vars

(***************************************************************************)
(* One record per call: the hellos with and without the renegotiation     *)
(* extension among them; the derived class calls                           *)
(* secure_renegotiation_check.                                             *)
(***************************************************************************)
\* hello bodies: without the extension (4), with it (5) and then empty, the
\* verify data of the first handshake as the peer of side s sends it, or
\* other; with heartbeats (6); with a compression method (12)
HelloBodies(s) ==
    { <<4>>, <<5>>, <<5, 6>>, IF s = SERVER THEN <<5, 5>> ELSE <<5, 8, 5>>,
      <<6>>, <<12>> }

\* the buffers of one record, and one of an empty record before another
Records(s) ==
    { HelloRecord(s, TLS_V10, body[1], Tail(body)) : body \in HelloBodies(s) }
    \cup { HelloRecord(s, DTLS_V10, 4, <<>>), WrongHelloRecord(s),
           CCSRecord, FinishedRecord, AlertRecord_(3, CLOSE_NOTIFY),
           DataRecord(<<>>) \o DataRecord(<<7>>) }
    \cup DataRecords \cup OtherRecords

\* one buffer per call; op.arg keeps it
ReceivedRecord ==
    \E buf \in Records(side) :
        /\ Call("received_data", buf, received_data(Chan, buf), MaxSeq)
        /\ UNCHANGED <<stream, fed>>

\* the same while the output callback (m_output_fn, line 415) throws
ReceivedRecordOutputFails ==
    \E buf \in Records(side) :
        /\ WithinBounds(
               received_data([Chan EXCEPT !.output_fails = TRUE], buf), MaxSeq)
        /\ Install(received_data([Chan EXCEPT !.output_fails = TRUE], buf))
        /\ op' = [name |-> "received_data", arg |-> buf, output_fails |-> TRUE]
        /\ UNCHANGED <<stream, fed>>

\* the call Client/Server::process_handshake_msg makes for a hello
SecureRenegotiationCheck ==
    \E body \in HelloBodies(side) :
        /\ Call("secure_renegotiation_check", HelloDecode(body),
                IF side = SERVER
                THEN secure_renegotiation_check_client_hello(
                         Chan, HelloDecode(body))
                ELSE secure_renegotiation_check_server_hello(
                         Chan, HelloDecode(body)),
                MaxSeq)
        /\ UNCHANGED <<stream, fed>>

\* contexts: none, short, the longest, too long
KeyMaterialExport ==
    \E context_size \in {0, 1, MaxContext, MaxContext + 1} :
        /\ Call("key_material_export", context_size,
                key_material_export(Chan, context_size, 1), MaxSeq)
        /\ UNCHANGED <<stream, fed>>

NextReneg ==
    \/ ReceivedRecord
    \/ SecureRenegotiationCheck
    \/ KeyMaterialExport

SpecReneg == Init /\ [][NextReneg]_vars

\* the calls the derived class makes at a change of cipher states
ChangeCipherSpec ==
    \/ /\ Call("change_cipher_spec_reader", side,
               change_cipher_spec_reader(Chan, side), MaxSeq)
       /\ UNCHANGED <<stream, fed>>
    \/ /\ Call("change_cipher_spec_writer", side,
               change_cipher_spec_writer(Chan, side), MaxSeq)
       /\ UNCHANGED <<stream, fed>>

\* records, with a callback that works or fails
NextFaults ==
    \/ ReceivedRecord
    \/ ReceivedRecordOutputFails

SpecFaults == Init /\ [][NextFaults]_vars

\* records, and the calls of the derived class in any state
NextProtected ==
    \/ ReceivedRecord
    \/ CreateHandshakeState
    \/ ChangeCipherSpec

SpecProtected == Init /\ [][NextProtected]_vars

\* the same bytes in one single call on a new channel
SingleCall == received_data(NewChannel(side), stream.bytes)

\* the state the model takes for granted: dereferences of lines 373 and 230
TypeOK ==
    /\ thrown.kind # "null_dereference"
    /\ m_max_fragment \in MinFragment..MaxPlaintext
    /\ (Has(m_active_state) \/ Has(m_pending_state)) => Has(m_sequence_numbers)
    /\ (Has(m_active_state) /\ ~m_connection_closed) => Has(m_write_cipherstate)
    /\ Has(m_active_state) => Has(Get(m_active_state).hello)

(***************************************************************************)
(* Properties.                                                             *)
(***************************************************************************)
fields ==
    <<m_active_state, m_pending_state, m_sequence_numbers, m_read_cipherstate,
      m_write_cipherstate, m_connection_closed, m_max_fragment, m_readbuf>>

Rejected(c) == c.err = runtime_error /\ c.out = <<>>

\* a send of application data, empty or long, is rejected and emits nothing
SendRejected == \A n \in {0, MaxSendLen} : Rejected(send(Chan, Bytes(n)))

TornDown ==
    /\ ~Has(m_active_state)
    /\ ~Has(m_pending_state)
    /\ ~Has(m_read_cipherstate)
    /\ ~Has(m_write_cipherstate)
    /\ m_connection_closed

\* the last call was received_data and the first thing it delivered is an alert
AlertReceived ==
    /\ op.name = "received_data"
    /\ Len(delivered) > 0
    /\ is_valid(delivered[1].alert)
    /\ delivered[1].alert.type # HEARTBEAT_PAYLOAD

FatalAlertProcessed == AlertReceived /\ delivered[1].alert.fatal

CloseNotifyProcessed == AlertReceived /\ delivered[1].alert.type = CLOSE_NOTIFY

\* C1: create_handshake_state called while a Pending state exists fails with
\* an internal error and leaves every field of the Channel as it was.
C1_PendingBlocksCreate ==
    [][(op'.name = "create_handshake_state" /\ Has(m_pending_state))
         => (thrown' = Internal_Error /\ output' = <<>> /\ UNCHANGED fields)]_vars

C1_Witness ==
    /\ op.name = "create_handshake_state"
    /\ thrown = Internal_Error
    /\ Has(m_pending_state)
    /\ Has(m_active_state)

\* C2 as stated: a fatal alert record processed by received_data while Active
\* exists leaves Active, Pending and both cipher states absent, the closed
\* flag set, and a following send fails.
C2_FatalAlertTearsDown ==
    [][(FatalAlertProcessed' /\ Has(m_active_state))
         => (TornDown' /\ SendRejected')]_vars

\* C2 amended: the same for a fatal alert that is not a close-notify, and for
\* a close-notify of fatal level on a connection not yet closed.
C2_FatalAlertTearsDownUnlessCloseNotifyOnClosed ==
    [][(/\ FatalAlertProcessed'
        /\ Has(m_active_state)
        /\ (delivered'[1].alert.type # CLOSE_NOTIFY \/ ~m_connection_closed))
         => (TornDown' /\ SendRejected')]_vars

C2_Witness ==
    /\ FatalAlertProcessed
    /\ delivered[1].alert.type = HANDSHAKE_FAILURE
    /\ removed # <<>>
    /\ TornDown

\* C3: once m_connection_closed is set it stays set, and in every closed
\* state, whatever calls follow, a send of application data is rejected.
C3_ClosedIsTerminal ==
    [][/\ m_connection_closed => m_connection_closed'
       /\ m_connection_closed' => SendRejected']_vars

\* a handshake completed on a connection that was closed before
C3_Witness ==
    /\ m_connection_closed
    /\ Has(m_active_state)
    /\ Has(m_write_cipherstate)
    /\ op.name = "received_data"
    /\ thrown = NoError

IsPrefix(s, t) == Len(s) <= Len(t) /\ SubSeq(t, 1, Len(s)) = s

\* the whole stream has been fed
StreamFed == stream.pos > 0 /\ stream.pos = Len(stream.bytes)

\* the single call runs to the end of the stream: no failure, no return 0
\* after a fatal alert
SingleCallWhole ==
    /\ Ok(SingleCall)
    /\ \A i \in 1..Len(SingleCall.proc) :
          ~(/\ SingleCall.proc[i].alert.fatal
            /\ SingleCall.proc[i].alert.type # CLOSE_NOTIFY)

\* C4 as stated: however a stream of whole records is cut into received_data
\* calls, the deliveries are those of one single call with the same bytes.
C4_ChunkingIndependent == StreamFed => fed = SingleCall.proc

\* C4 amended: the deliveries of the chunked calls begin with those of the
\* single call, and are the same when the single call raises no failure and
\* delivers no fatal alert other than a close-notify.
C4_ChunkingExtendsSingleCall ==
    StreamFed =>
        /\ IsPrefix(SingleCall.proc, fed)
        /\ SingleCallWhole => fed = SingleCall.proc

\* a stream fed in several calls, with the deliveries of the single call
C4_Witness ==
    /\ StreamFed
    /\ op.arg = TRUE
    /\ SingleCallWhole
    /\ Len(fed) = MaxStreamRecords
    /\ fed = SingleCall.proc

Ceil(n, f) == (n + f - 1) \div f

Payloads(records) == Flatten([i \in 1..Len(records) |-> records[i].payload])

\* the last call was a send on an active connection
SentOnActive == op.name = "send" /\ is_active(Chan)

WriteStateIsCbcWithoutExplicitIv ==
    Get(m_write_cipherstate).cbc_without_explicit_iv

\* C5: a send of N bytes with maximum fragment size F on an active connection
\* emits records of at most F payload bytes whose payloads, in order, are the
\* N bytes.
C5_FragmentsCarryTheInput ==
    SentOnActive =>
        /\ thrown = NoError
        /\ \A i \in 1..Len(output) :
              /\ output[i].type = APPLICATION_DATA
              /\ Len(output[i].payload) <= m_max_fragment
        /\ Payloads(output) = op.arg

C5_Witness ==
    /\ SentOnActive
    /\ Len(op.arg) = MaxSendLen
    /\ m_max_fragment = MinFragment
    /\ WriteStateIsCbcWithoutExplicitIv
    /\ Len(output) >= 3

\* the records the handshake sends back, the change cipher spec and the
\* finished message, are cut by the fragment size alone
HandshakeReplyNotDesynchronized ==
    (op.name = "received_data" /\ thrown = NoError /\ Len(output) > 0) =>
        /\ Len(output) = 1 + Ceil(3, m_max_fragment)
        /\ output[1].payload = <<1>>
        /\ Len(output[2].payload) = Min(3, m_max_fragment)

\* C6 as stated, for every N >= 1: ceil(N/F) records with an explicit IV,
\* ceil(N/F)+1 with CBC without explicit IV, the first of them a single byte;
\* records of other content types get no such first record.
C6_RecordCount ==
    /\ (SentOnActive /\ Len(op.arg) >= 1) =>
          IF WriteStateIsCbcWithoutExplicitIv
          THEN /\ Len(output) = Ceil(Len(op.arg), m_max_fragment) + 1
               /\ Len(output[1].payload) = 1
          ELSE Len(output) = Ceil(Len(op.arg), m_max_fragment)
    /\ HandshakeReplyNotDesynchronized

\* C6 amended: ceil(N/F) records with an explicit IV; with CBC without
\* explicit IV none for N = 0 and otherwise 1 + ceil((N-1)/F), the first of
\* them the first byte alone; records of other content types get no such
\* first record.
C6_RecordCountAfterFirstByte ==
    /\ SentOnActive =>
          IF WriteStateIsCbcWithoutExplicitIv
          THEN IF Len(op.arg) = 0 THEN output = <<>>
               ELSE /\ Len(output) =
                          1 + Ceil(Len(op.arg) - 1, m_max_fragment)
                    /\ output[1].payload = <<op.arg[1]>>
          ELSE Len(output) = Ceil(Len(op.arg), m_max_fragment)
    /\ HandshakeReplyNotDesynchronized

\* N = F + 1 under CBC without explicit IV: two records, not three
C6_Witness ==
    /\ SentOnActive
    /\ WriteStateIsCbcWithoutExplicitIv
    /\ Len(op.arg) = m_max_fragment + 1
    /\ Len(output) = 2

\* C7: send without an Active state is rejected, emits nothing, consumes no
\* write sequence number and leaves the Channel as it was.
C7_SendNeedsActive ==
    [][(op'.name = "send" /\ ~Has(m_active_state))
         => (/\ thrown' = runtime_error
             /\ output' = <<>>
             /\ UNCHANGED fields)]_vars

\* rejected in the middle of the first handshake
C7_Witness ==
    /\ op.name = "send"
    /\ thrown = runtime_error
    /\ ~Has(m_active_state)
    /\ Has(m_pending_state)
    /\ Has(m_sequence_numbers)

RenegotiateIsNoOp ==
    /\ thrown' = NoError
    /\ output' = <<>>
    /\ UNCHANGED fields

\* C8 as stated: renegotiate is a silent no-op, no error, when Pending exists
\* or Active is absent.
C8_RenegotiateSilentOtherwise ==
    [][(op'.name = "renegotiate"
          /\ (Has(m_pending_state) \/ ~Has(m_active_state)))
         => RenegotiateIsNoOp]_vars

\* C8 amended: with Pending present renegotiate is a silent no-op; with
\* neither Pending nor Active it fails with a runtime error, emitting nothing
\* and changing nothing; with Active and no Pending it creates the Pending
\* state.
C8_RenegotiateThrowsWhenInactive ==
    [][op'.name = "renegotiate" =>
         IF Has(m_pending_state) THEN RenegotiateIsNoOp
         ELSE IF ~Has(m_active_state)
         THEN /\ thrown' = runtime_error
              /\ output' = <<>>
              /\ UNCHANGED fields
         ELSE /\ thrown' = NoError
              /\ Has(m_pending_state')
              /\ UNCHANGED m_active_state]_vars

C8_Witness ==
    /\ op.name = "renegotiate"
    /\ thrown = runtime_error
    /\ ~Has(m_active_state)
    /\ ~Has(m_pending_state)

CloseNotifyReply(records) ==
    /\ Len(records) = 1
    /\ records[1].type = ALERT
    /\ records[1].payload = serialize(Alert(CLOSE_NOTIFY, FALSE))

\* C9 as stated: a close-notify received on a connection not yet closed is
\* answered by a close-notify and only the read cipher state goes: the write
\* cipher state and Active are still there.
C9_CloseNotifyKeepsWriteSide ==
    [][(/\ CloseNotifyProcessed'
        /\ ~m_connection_closed
        /\ Has(m_active_state)
        /\ Has(m_write_cipherstate))
         => (/\ CloseNotifyReply(output')
             /\ ~Has(m_read_cipherstate')
             /\ Has(m_write_cipherstate')
             /\ Has(m_active_state'))]_vars

\* C9 amended: a close-notify received on a connection not yet closed leaves
\* Active, Pending and both cipher states absent and the closed flag set; the
\* close-notify reply is emitted when an Active or Pending state existed and
\* nothing is emitted otherwise.
C9_CloseNotifyTearsDown ==
    [][(CloseNotifyProcessed' /\ ~m_connection_closed)
         => (/\ thrown' = NoError
             /\ TornDown'
             /\ IF Has(m_active_state) \/ Has(m_pending_state)
                THEN CloseNotifyReply(output')
                ELSE output' = <<>>)]_vars

C9_Witness ==
    /\ CloseNotifyProcessed
    /\ CloseNotifyReply(output)
    /\ output[1].protected
    /\ TornDown

\* a fatal alert went out: send_alert with a fatal alert, or the alert of a
\* received_data that failed
FatalAlertSent ==
    \/ op.name = "send_alert" /\ op.arg.fatal
    \/ op.name = "received_data" /\ thrown # NoError

\* C10 as stated: a fatal alert sent leaves Active, Pending and both cipher
\* states absent and the closed flag set, as a fatal alert received does.
C10_FatalAlertSentTearsDown == FatalAlertSent => TornDown

\* C10 amended: a fatal alert sent leaves Active, Pending and the write cipher
\* state absent and the closed flag set; send_alert leaves the read cipher
\* state as it was.
C10_FatalAlertSentKeepsReadState ==
    [][FatalAlertSent' =>
         /\ ~Has(m_active_state')
         /\ ~Has(m_pending_state')
         /\ ~Has(m_write_cipherstate')
         /\ m_connection_closed'
         /\ op'.name = "send_alert" => UNCHANGED m_read_cipherstate]_vars

C10_Witness ==
    /\ op.name = "send_alert"
    /\ op.arg.fatal
    /\ Has(m_read_cipherstate)
    /\ m_connection_closed
    /\ removed # <<>>

\* the record is a hello of the peer, and the hello it carries
IsHelloRecord(buf) ==
    /\ Len(buf) > TLS_HEADER_SIZE + 2
    /\ buf[1] = HANDSHAKE
    /\ buf[TLS_HEADER_SIZE + 1] =
          IF side = SERVER THEN CLIENT_HELLO ELSE SERVER_HELLO

HelloOf(buf) == HelloDecode(SubSeq(buf, TLS_HEADER_SIZE + 3, Len(buf)))

\* the verify data a hello has to carry: none before the first handshake,
\* then the client finished (client hello) or the client finished followed
\* by the server finished (server hello) of the Active handshake
ExpectedVerifyData ==
    IF ~Has(m_active_state) THEN <<>>
    ELSE IF side = SERVER THEN Get(m_active_state).client_finished
    ELSE Get(m_active_state).client_finished
           \o Get(m_active_state).server_finished

\* the last call took a hello that opens a renegotiation
RenegotiationHelloProcessed ==
    /\ op'.name = "received_data"
    /\ IsHelloRecord(op'.arg)
    /\ Has(m_active_state)
    /\ ~Has(m_pending_state)
    /\ <<op'.arg[2], op'.arg[3]>> = Get(m_active_state).version

FatalAlerts(records) ==
    { i \in 1..Len(records) :
        records[i].type = ALERT /\ records[i].payload[1] = 2 }

\* the handshake failure: raised, its alert emitted unless the connection was
\* closed already, Active, Pending and the write cipher state gone
HandshakeFailureRaised ==
    /\ thrown' = TLS_Exception(HANDSHAKE_FAILURE)
    /\ IF m_connection_closed THEN output' = <<>>
       ELSE /\ Len(output') = 1
            /\ output'[1].type = ALERT
            /\ output'[1].payload = <<2, HANDSHAKE_FAILURE>>
    /\ ~Has(m_active_state')
    /\ ~Has(m_pending_state')
    /\ ~Has(m_write_cipherstate')
    /\ m_connection_closed'

C12_BoundHelloPasses ==
    [][(/\ op'.name = "secure_renegotiation_check"
        /\ op'.arg.renegotiation_info = ExpectedVerifyData)
         => thrown' = NoError]_vars

\* C12 amended: it passes when, in addition, its use of secure
\* renegotiation is that of the Active handshake, if there is one.
C12_BoundHelloOfSameKindPasses ==
    [][(/\ op'.name = "secure_renegotiation_check"
        /\ op'.arg.renegotiation_info = ExpectedVerifyData
        /\ Has(m_active_state) =>
              op'.arg.secure_renegotiation
                = Get(Get(m_active_state).hello).secure_renegotiation)
         => (thrown' = NoError /\ output' = <<>> /\ UNCHANGED fields)]_vars

\* a hello bound to the Active handshake passed the check
C12_Witness ==
    /\ op.name = "secure_renegotiation_check"
    /\ Has(m_active_state)
    /\ op.arg.secure_renegotiation
    /\ op.arg.renegotiation_info = ExpectedVerifyData
    /\ thrown = NoError

ReadEpoch == IF Has(m_sequence_numbers) THEN Get(m_sequence_numbers).read_epoch ELSE 0

WriteEpoch == IF Has(m_sequence_numbers) THEN Get(m_sequence_numbers).write_epoch ELSE 0

RECURSIVE RecordPayloads(_)
\* the payloads of the records of a buffer of whole records, in order
RecordPayloads(buf) ==
    IF Len(buf) < TLS_HEADER_SIZE THEN <<>>
    ELSE <<SubSeq(buf, TLS_HEADER_SIZE + 1,
                  TLS_HEADER_SIZE + buf[4] * 256 + buf[5])>>
         \o RecordPayloads(
                SubSeq(buf, TLS_HEADER_SIZE + buf[4] * 256 + buf[5] + 1, Len(buf)))

\* the last call took application data records only, Active existing
ApplicationDataReceived ==
    /\ op'.name = "received_data"
    /\ op'.arg # <<>>
    /\ op'.arg[1] = APPLICATION_DATA
    /\ Has(m_active_state)

\* one delivery per non-empty record, with its payload; none for an empty one
DeliveredPayloads ==
    /\ thrown' = NoError
    /\ output' = <<>>
    /\ delivered' = [i \in 1..Len(SelectSeq(RecordPayloads(op'.arg),
                                            LAMBDA d : d # <<>>)) |->
                        [data |-> SelectSeq(RecordPayloads(op'.arg),
                                            LAMBDA d : d # <<>>)[i],
                         alert |-> NullAlert]]

\* nothing of the connection changes but the count of the records read
OnlyReadSequenceAdvanced ==
    /\ UNCHANGED <<m_active_state, m_pending_state, m_read_cipherstate,
                   m_write_cipherstate, m_connection_closed, m_max_fragment,
                   m_readbuf>>
    /\ \E n \in 0..(MaxSeq + 1) :
          m_sequence_numbers' =
              Some([Get(m_sequence_numbers) EXCEPT !.read_seq = n])

AtFailure == ReceiveLoop(Chan, op'.arg)

\* the alert type the catch clauses give a failure
AlertTypeOf(e) ==
    IF e.kind = "TLS_Exception" THEN e.type
    ELSE IF e.kind = "Decoding_Error" THEN DECODE_ERROR
    ELSE INTERNAL_ERROR

ChanOfCall ==
    [Chan EXCEPT !.output_fails = "output_fails" \in DOMAIN op']

\* C17: a received_data call raises exactly the failure its receive loop
\* raised (none if it raised none), whether or not the alert for it could
\* be sent: without handshake state or sequence numbers, or with an output
\* callback that throws.
C17_OriginalFailurePropagates ==
    [][op'.name = "received_data" =>
          thrown' = ReceiveLoop(ChanOfCall, op'.arg).err]_vars

\* after a handshake, a failure whose alert met a throwing callback: the
\* alert took a sequence number, nothing went out, the failure is the
\* unexpected message
C17_Witness ==
    /\ op.name = "received_data"
    /\ "output_fails" \in DOMAIN op
    /\ thrown = Unexpected_Message
    /\ output = <<>>
    /\ removed # <<>>
    /\ Get(m_sequence_numbers).write_epoch = 1
    /\ Get(m_sequence_numbers).write_seq = 2

\* the last call took one heartbeat record
HeartbeatReceived ==
    /\ op'.name = "received_data"
    /\ op'.arg # <<>>
    /\ op'.arg[1] = HEARTBEAT

HeartbeatIgnored ==
    /\ thrown' = NoError
    /\ output' = <<>>
    /\ delivered' = <<>>
    /\ OnlyReadSequenceAdvanced

ApplicationDataBeforeActive ==
    /\ op'.name = "received_data"
    /\ op'.arg # <<>>
    /\ op'.arg[1] = APPLICATION_DATA
    /\ ~Has(m_active_state)

\* C19 as stated: application data received without an Active state is not
\* delivered and raises an unexpected message failure, whatever its length.
C19_NoDataBeforeActive ==
    [][ApplicationDataBeforeActive =>
          (delivered' = <<>> /\ thrown' = Unexpected_Message)]_vars

\* C19 amended: it is not delivered and raises a failure: record overflow
\* when the payload is longer than the maximum fragment size, unexpected
\* message otherwise, an empty payload included.
C19_NoDataBeforeActiveWithinFragment ==
    [][ApplicationDataBeforeActive =>
          /\ delivered' = <<>>
          /\ thrown' = IF Len(RecordPayloads(op'.arg)[1]) > m_max_fragment
                       THEN TLS_Exception(RECORD_OVERFLOW)
                       ELSE Unexpected_Message]_vars

\* an empty application data record after a teardown was refused
C19_Witness ==
    /\ op.name = "received_data"
    /\ op.arg = DataRecord(<<>>)
    /\ thrown = Unexpected_Message
    /\ delivered = <<>>
    /\ output = <<>>
    /\ Has(m_sequence_numbers)
    /\ Get(m_sequence_numbers).write_epoch = 1

\* the precondition of change_cipher_spec_reader and _writer
HaveReceivedServerHello ==
    Has(m_pending_state) /\ Has(Get(m_pending_state).hello)

\* C20: change_cipher_spec_reader and _writer called without a Pending state
\* that has seen the server hello raise the assertion failure, called for a
\* hello with a compression method the internal error, and then change
\* nothing: no epoch, no cipher state; called otherwise they bump the epoch
\* of their direction and install its cipher state.
C20_ChangeCipherSpecPrecondition ==
    [][op'.name \in {"change_cipher_spec_reader", "change_cipher_spec_writer"} =>
          IF ~HaveReceivedServerHello
          THEN thrown' = Assertion_Failure /\ UNCHANGED fields
          ELSE IF Get(Get(m_pending_state).hello).compression_method
                    # NO_COMPRESSION
          THEN thrown' = Internal_Error /\ UNCHANGED fields
          ELSE /\ thrown' = NoError
               /\ IF op'.name = "change_cipher_spec_reader"
                  THEN /\ ReadEpoch' = ReadEpoch + 1
                       /\ WriteEpoch' = WriteEpoch
                       /\ Has(m_read_cipherstate')
                       /\ UNCHANGED m_write_cipherstate
                  ELSE /\ WriteEpoch' = WriteEpoch + 1
                       /\ ReadEpoch' = ReadEpoch
                       /\ Has(m_write_cipherstate')
                       /\ UNCHANGED m_read_cipherstate]_vars

\* change_cipher_spec_writer refused a hello with a compression method
C20_Witness ==
    /\ op.name = "change_cipher_spec_writer"
    /\ thrown = Internal_Error
    /\ HaveReceivedServerHello
    /\ Get(Get(m_pending_state).hello).compression_method # NO_COMPRESSION

\* the cipher states built from the Pending state of the pre-state
ReadStateOfPending ==
    Some(Connection_Cipher_State(Get(m_pending_state).version,
                                 IF side = CLIENT THEN SERVER ELSE CLIENT,
                                 Get(Get(m_pending_state).hello)))

WriteStateOfPending ==
    Some(Connection_Cipher_State(Get(m_pending_state).version, side,
                                 Get(Get(m_pending_state).hello)))

\* C21: with one record or one call per step, a step that puts another read
\* cipher state in place bumps the read epoch, a step that bumps the read
\* epoch bumps it by one and leaves the read cipher state built from the
\* Pending state in place, and both leave the write cipher state and the
\* write epoch as they were; the same with read and write exchanged.
C21_SwapPairedWithEpoch ==
    [][/\ (Has(m_read_cipherstate') /\ m_read_cipherstate' # m_read_cipherstate)
            => ReadEpoch' # ReadEpoch
       /\ ReadEpoch' # ReadEpoch =>
            /\ ReadEpoch' = ReadEpoch + 1
            /\ HaveReceivedServerHello
            /\ m_read_cipherstate' = ReadStateOfPending
            /\ WriteEpoch' = WriteEpoch
            /\ UNCHANGED m_write_cipherstate
       /\ (Has(m_write_cipherstate')
             /\ m_write_cipherstate' # m_write_cipherstate)
            => WriteEpoch' # WriteEpoch
       /\ WriteEpoch' # WriteEpoch =>
            /\ WriteEpoch' = WriteEpoch + 1
            /\ HaveReceivedServerHello
            /\ m_write_cipherstate' = WriteStateOfPending
            /\ ReadEpoch' = ReadEpoch
            /\ UNCHANGED m_read_cipherstate]_vars

\* a change cipher spec record was read: the read side is one epoch ahead
C21_Witness ==
    /\ op.name = "received_data"
    /\ op.arg = CCSRecord
    /\ thrown = NoError
    /\ ReadEpoch = 1
    /\ WriteEpoch = 0
    /\ Has(m_read_cipherstate)
    /\ ~Has(m_write_cipherstate)

\* the counters of s were carried on into t: none reset, none moved back
CarriedOn(s, t) ==
    /\ t.datagram = s.datagram
    /\ t.read_epoch >= s.read_epoch
    /\ t.write_epoch >= s.write_epoch
    /\ t.read_epoch = s.read_epoch => t.read_seq >= s.read_seq
    /\ t.write_epoch = s.write_epoch => t.write_seq >= s.write_seq

\* C22: the sequence numbers, once there, stay: no call removes them, changes
\* their family or resets a counter or an epoch; they appear in a call that
\* creates a handshake state, new and of the family of its version.
C22_SequenceNumbersCreatedOnce ==
    [][/\ Has(m_sequence_numbers) =>
            /\ Has(m_sequence_numbers')
            /\ CarriedOn(Get(m_sequence_numbers), Get(m_sequence_numbers'))
       /\ (~Has(m_sequence_numbers) /\ Has(m_sequence_numbers')) =>
            /\ op'.name \in {"create_handshake_state", "received_data"}
            /\ op'.name = "create_handshake_state" =>
                  /\ m_sequence_numbers' =
                        Some(NewSequenceNumbers(is_datagram_protocol(op'.arg)))
                  /\ Has(m_pending_state')]_vars

\* a handshake state created after a teardown counts on in the epochs of the
\* handshake before
C22_Witness ==
    /\ m_connection_closed
    /\ Has(m_pending_state)
    /\ ~Has(m_active_state)
    /\ ReadEpoch = 1
    /\ WriteEpoch = 1

\* Pending, when Active exists as well, is of Active's family and version
SameFamily ==
    (Has(m_active_state) /\ Has(m_pending_state)) =>
        /\ Get(m_pending_state).datagram_io
             = is_datagram_protocol(Get(m_active_state).version)
        /\ Get(m_pending_state).version = Get(m_active_state).version

\* C23: after every call Pending and Active, when both exist, are of the
\* same transport family; create_handshake_state for a version of the other
\* family than Active's raises a failure (the Internal_Error first if Pending
\* exists), creates no Pending and changes nothing.
C23_PendingOfActiveFamily ==
    [][/\ SameFamily'
       /\ (/\ op'.name = "create_handshake_state"
           /\ Has(m_active_state)
           /\ is_datagram_protocol(op'.arg)
                # is_datagram_protocol(Get(m_active_state).version))
            => /\ thrown' = IF Has(m_pending_state) THEN Internal_Error
                            ELSE runtime_error
               /\ UNCHANGED fields]_vars

\* create_handshake_state for a datagram version on an Active stream
\* connection was refused
C23_Witness ==
    /\ op.name = "create_handshake_state"
    /\ op.arg = DTLS_V10
    /\ thrown = runtime_error
    /\ Has(m_active_state)
    /\ ~is_datagram_protocol(Get(m_active_state).version)
    /\ ~Has(m_pending_state)

\* a handshake state without the verify data its finished messages add
WithoutFinished(state) ==
    [state EXCEPT !.client_finished = <<>>, !.server_finished = <<>>]

\* C24: the call that accepts the peer's finished message ends with the
\* Pending state of before, completed by the finished messages, as the Active
\* state and with no Pending state; and after no call are Pending and Active
\* the same handshake.
C24_PromotionInOneStep ==
    [][/\ (/\ op'.name = "received_data"
           /\ op'.arg = FinishedRecord
           /\ thrown' = NoError)
            => /\ Has(m_pending_state)
               /\ ~Has(m_pending_state')
               /\ Has(m_active_state')
               /\ WithoutFinished(Get(m_active_state'))
                    = WithoutFinished(Get(m_pending_state))
               /\ Get(m_active_state').client_finished # <<>>
               /\ Get(m_active_state').server_finished # <<>>
       /\ (Has(m_active_state') /\ Has(m_pending_state'))
            => m_active_state' # m_pending_state']_vars

\* a renegotiation was completed: its state displaced the Active one
C24_Witness ==
    /\ op.name = "received_data"
    /\ op.arg = FinishedRecord
    /\ thrown = NoError
    /\ WriteEpoch = 2
    /\ Has(m_active_state)
    /\ ~Has(m_pending_state)

\* the call that made r of the current state tore nothing down: Active, the
\* cipher states and the closed flag are as they were, a later send fares as
\* it would have, and Pending is as given
NoTeardown(r, pending) ==
    /\ r.active = m_active_state
    /\ r.rcs = m_read_cipherstate
    /\ r.wcs = m_write_cipherstate
    /\ r.closed = m_connection_closed
    /\ r.maxfrag = m_max_fragment
    /\ r.removed = <<>>
    /\ r.pending = pending
    /\ send(r, Bytes(2)).err = send(Chan, Bytes(2)).err

\* C25: in every reachable state a warning alert other than close notify,
\* if received now, is delivered once, raises nothing and tears nothing
\* down; a no renegotiation warning, received or sent now, discards Pending
\* and nothing else, the other leaves Pending as well.
C25_WarningAlertNoTeardown ==
    /\ \A type \in {NO_RENEGOTIATION, USER_CANCELED} :
          LET r == received_data(Chan, AlertRecord_(1, type))
          IN  /\ r.err = NoError
              /\ r.out = <<>>
              /\ r.proc = <<[data |-> <<>>, alert |-> Alert(type, FALSE)]>>
              /\ NoTeardown(r, IF type = NO_RENEGOTIATION THEN None
                               ELSE m_pending_state)
    /\ LET t == send_alert(Chan, Alert(NO_RENEGOTIATION, FALSE))
       IN  /\ t.err = NoError
           /\ t.proc = <<>>
           /\ NoTeardown(t, None)

\* a no renegotiation warning was received after the change cipher spec of a
\* renegotiation: Pending is gone, Active and the cipher states are there
C25_Witness ==
    /\ op.name = "received_data"
    /\ delivered = <<[data |-> <<>>, alert |-> Alert(NO_RENEGOTIATION, FALSE)]>>
    /\ thrown = NoError
    /\ ~Has(m_pending_state)
    /\ Has(m_active_state)
    /\ ~m_connection_closed
    /\ ReadEpoch = 2
    /\ WriteEpoch = 1

(***************************************************************************)
(* C26.  The state a handshake or change-cipher-spec record is fed to.     *)
(***************************************************************************)
HandshakeRecordsOf(s) ==
    { HelloRecord(s, TLS_V10, 4, <<>>), HelloRecord(s, DTLS_V10, 4, <<>>),
      CCSRecord }

\* the record read_record hands to the dispatch
Decoded(buf) == read_record(<<>>, buf, m_sequence_numbers)

\* what add_input leaves in the reassembly buffer
FedTo(queue, r) ==
    IF r.rec_type = CHANGE_CIPHER_SPEC THEN queue \o <<HANDSHAKE_CCS, 0>>
    ELSE queue \o r.record

\* a fresh state of the record's transport family, reads accepted from the
\* record's sequence
StartedFor(a, r) ==
    /\ a.err = NoError
    /\ Has(a.pending)
    /\ Get(a.pending).datagram_io = is_datagram_protocol(r.version)
    /\ Get(a.pending).hello = None
    /\ Get(a.pending).queue = <<>>
    /\ Has(a.seq)
    /\ Get(a.seq).read_seq = r.sequence + 1
    /\ a.active = m_active_state

\* the record goes to the state that exists already, no state is created
FedToExisting(a, r) ==
    /\ a = Chan
    /\ LET f == add_input(a, r.rec_type, r.record)
       IN  /\ f.err = NoError
           /\ f.pending =
                 Some([Get(m_pending_state) EXCEPT !.queue = FedTo(@, r)])

OfActiveFamily(r) ==
    Has(m_active_state)
        => is_datagram_protocol(Get(m_active_state).version)
             = is_datagram_protocol(r.version)

FollowingRecords(s) ==
    { DataRecord(<<7>>), HelloRecord(s, TLS_V10, 4, <<>>),
      AlertRecord_(1, USER_CANCELED) }

\* the session id remove_entry is called with, read from Active
SessionOfActive ==
    IF Has(m_active_state) /\ Has(Get(m_active_state).hello)
    THEN <<Get(Get(m_active_state).hello).session_id>>
    ELSE <<>>

\* received_data of a fatal alert record of the given type with rest behind
\* it ends at the alert
StopsAtFatalAlert(type, rest) ==
    LET r == received_data(Chan, AlertRecord_(2, type) \o rest)
    IN  /\ r = received_data(Chan, AlertRecord_(2, type))
        /\ r.err = NoError
        /\ r.ret = 0
        /\ r.proc = <<[data |-> <<>>, alert |-> Alert(type, TRUE)]>>
        /\ r.removed = SessionOfActive
        /\ ~Has(r.active)

\* C27 as stated: after a fatal alert record is processed received_data
\* returns 0 at once, no record behind it in the same input is decoded,
\* dispatched or delivered, and the session Active holds is removed from the
\* session cache before Active is cleared.
C27_StopsAfterFatalAlert ==
    m_readbuf = <<>> =>
        \A type \in {HANDSHAKE_FAILURE, NO_RENEGOTIATION, CLOSE_NOTIFY} :
            \A rest \in FollowingRecords(side) : StopsAtFatalAlert(type, rest)

\* C27: the same for every fatal alert record that is not a close-notify.
C27_StopsAfterFatalAlertNotCloseNotify ==
    m_readbuf = <<>> =>
        \A type \in {HANDSHAKE_FAILURE, NO_RENEGOTIATION} :
            \A rest \in FollowingRecords(side) : StopsAtFatalAlert(type, rest)

\* a fatal alert ended the call, the session Active held was removed
C27_Witness ==
    /\ op.name = "received_data"
    /\ thrown = NoError
    /\ delivered = <<[data |-> <<>>, alert |-> Alert(HANDSHAKE_FAILURE, TRUE)]>>
    /\ Len(removed) = 1
    /\ ~Has(m_active_state)
    /\ m_connection_closed
    /\ m_readbuf = <<>>

(***************************************************************************)
(* C28.  Closing twice.                                                    *)
(***************************************************************************)
Closing(alert) == alert.type = CLOSE_NOTIFY \/ alert.fatal

\* C28: send_alert on a closed connection, or with an alert that is not
\* valid, emits no record; and a send_alert with a close-notify or a fatal
\* alert that follows another such send_alert emits nothing, removes nothing
\* from the session cache and leaves every field of the Channel as the first
\* left it.
C28_ClosingIsIdempotent ==
    [][op'.name = "send_alert" =>
         /\ (m_connection_closed \/ ~is_valid(op'.arg)) => output' = <<>>
         /\ (op.name = "send_alert" /\ Closing(op.arg) /\ Closing(op'.arg))
              => /\ output' = <<>>
                 /\ removed' = <<>>
                 /\ thrown' = NoError
                 /\ UNCHANGED fields]_vars

\* a fatal alert sent on a connection that a handshake had completed on and
\* that was closed already: nothing goes out
C28_Witness ==
    /\ op.name = "send_alert"
    /\ op.arg = Alert(INTERNAL_ERROR, TRUE)
    /\ m_connection_closed
    /\ output = <<>>
    /\ removed = <<>>
    /\ ~Has(m_active_state)
    /\ ~Has(m_write_cipherstate)
    /\ Has(m_read_cipherstate)
    /\ Get(m_sequence_numbers).write_seq = 1

(***************************************************************************)
(* C29.  A failure of received_data closes the connection.                 *)
(***************************************************************************)
\* C29: a received_data call that fails leaves m_connection_closed set and
\* Active, Pending and the write cipher state absent, whether or not its
\* alert could be sent; the flag stays set from then on and in every closed
\* state a send of application data is rejected.
C29_FailureClosesForGood ==
    [][/\ (op'.name = "received_data" /\ thrown' # NoError) =>
             /\ m_connection_closed'
             /\ ~Has(m_active_state')
             /\ ~Has(m_pending_state')
             /\ ~Has(m_write_cipherstate')
       /\ m_connection_closed => m_connection_closed'
       /\ m_connection_closed' => SendRejected']_vars

\* an unexpected record after a handshake: the failure closed the connection,
\* its alert went out, the session was removed
C29_Witness ==
    /\ op.name = "received_data"
    /\ "output_fails" \notin DOMAIN op
    /\ thrown = Unexpected_Message
    /\ output # <<>>
    /\ output[Len(output)].payload = <<2, UNEXPECTED_MESSAGE>>
    /\ removed # <<>>
    /\ m_connection_closed
    /\ ~Has(m_active_state)
    /\ ~Has(m_write_cipherstate)
    /\ Has(m_read_cipherstate)

(***************************************************************************)
(* C30.  The families of the Pending state's handshake I/O and of the      *)
(* sequence numbers.                                                       *)
(***************************************************************************)
\* C30: whenever a Pending state exists, its handshake I/O is of the
\* transport family (stream or datagram) of the sequence numbers object,
\* whatever handshakes, aborts, close-notifies, teardowns and handshake
\* records of either family came before.
C30_PendingOfSequenceFamily ==
    Has(m_pending_state) =>
        /\ Has(m_sequence_numbers)
        /\ Get(m_pending_state).datagram_io = Get(m_sequence_numbers).datagram

\* a handshake record of a datagram version, received after a teardown that
\* left stream sequence numbers behind, has started a datagram handshake
C30_Witness ==
    /\ op.name = "received_data"
    /\ op.arg = HelloRecord(side, DTLS_V10, 4, <<>>)
    /\ thrown = NoError
    /\ ~Has(m_active_state)
    /\ Has(m_pending_state)
    /\ Get(m_pending_state).datagram_io
    /\ ~Get(m_sequence_numbers).datagram

(***************************************************************************)
(* C31.  What removes the session from the session cache.                  *)
(***************************************************************************)
AlertsOfBothLevels ==
    { Alert(type, fatal) :
        type \in {CLOSE_NOTIFY, HANDSHAKE_FAILURE, NO_RENEGOTIATION,
                  USER_CANCELED},
        fatal \in BOOLEAN }

\* the removals of a send_alert and of a received alert record
RemovalsOfAlert(a) ==
    /\ send_alert(Chan, a).removed = IF a.fatal THEN SessionOfActive ELSE <<>>
    /\ received_data(Chan, AlertRecord_(IF a.fatal THEN 2 ELSE 1, a.type)).removed
         = IF a.fatal /\ a.type # CLOSE_NOTIFY THEN SessionOfActive ELSE <<>>

\* a warning close-notify, sent or received, closes and removes nothing
WarningCloseNotifyCloses ==
    /\ send_alert(Chan, Alert(CLOSE_NOTIFY, FALSE)).closed
    /\ received_data(Chan, AlertRecord_(1, CLOSE_NOTIFY)).closed

\* a fatal alert was received, or sent by send_alert or by a catch clause
FatalAlertInvolved ==
    \/ op.name = "send_alert" /\ op.arg.fatal
    \/ /\ op.name = "received_data"
       /\ \/ thrown # NoError
          \/ \E i \in DOMAIN delivered : delivered[i].alert.fatal

\* C31: the session is removed from the session cache only by a fatal alert,
\* sent or received, while an Active state with a hello exists, and it is the
\* session of that state; a close-notify of warning level, sent or received,
\* closes the connection and removes nothing; nothing is removed when there
\* is no Active state.
C31_SessionRemovedOnlyByFatalAlert ==
    /\ [](/\ m_readbuf = <<>> => \A a \in AlertsOfBothLevels : RemovalsOfAlert(a)
          /\ m_readbuf = <<>> => WarningCloseNotifyCloses)
    /\ [][removed' # <<>> =>
             /\ FatalAlertInvolved'
             /\ removed' = SessionOfActive
             /\ Has(m_active_state)]_vars

\* a close-notify of warning level was sent on a live session: the alert
\* went out, the connection is closed, the session stays in the cache
C31_Witness ==
    /\ op.name = "send_alert"
    /\ op.arg = Alert(CLOSE_NOTIFY, FALSE)
    /\ output # <<>>
    /\ output[Len(output)].payload = <<1, CLOSE_NOTIFY>>
    /\ removed = <<>>
    /\ m_connection_closed
    /\ Has(m_read_cipherstate)
    /\ Get(m_sequence_numbers).write_epoch = 1

(***************************************************************************)
(* C32.  The delivery of a received alert.                                 *)
(***************************************************************************)
\* the alert record delivered once, from a channel that the alert has not
\* yet changed and that has not yet replied
DeliveredFirst(r, a) ==
    /\ r.proc = <<[data |-> <<>>, alert |-> a]>>
    /\ r.at_proc = <<[out |-> <<>>, active |-> m_active_state,
                      rcs |-> m_read_cipherstate, wcs |-> m_write_cipherstate,
                      closed |-> m_connection_closed]>>

\* records of type alert that are no alert: a level that does not exist, a
\* payload longer than the maximum fragment
NoAlertRecords ==
    { AlertRecord_(3, CLOSE_NOTIFY),
      Wire(ALERT, TLS_V10, [i \in 1..(MaxPlaintext + 1) |-> 1]) }

\* C32 as stated: every record of type alert is delivered exactly once with
\* empty data and its alert, also on a closed connection, before the reply to
\* a close-notify goes out and before the alert changes Active, the cipher
\* states or the closed flag.
C32_EveryAlertRecordDeliveredFirst ==
    m_readbuf = <<>> =>
        /\ \A a \in AlertsOfBothLevels :
              DeliveredFirst(
                  received_data(Chan, AlertRecord_(IF a.fatal THEN 2 ELSE 1,
                                                   a.type)), a)
        /\ \A buf \in NoAlertRecords :
              Len(received_data(Chan, buf).proc) = 1

\* C32: the same for every alert record that is within the maximum fragment
\* and decodes as an alert; any other record of type alert is not delivered
\* and fails the call.
C32_DecodedAlertDeliveredFirst ==
    m_readbuf = <<>> =>
        /\ \A a \in AlertsOfBothLevels :
              DeliveredFirst(
                  received_data(Chan, AlertRecord_(IF a.fatal THEN 2 ELSE 1,
                                                   a.type)), a)
        /\ \A buf \in NoAlertRecords :
              /\ received_data(Chan, buf).proc = <<>>
              /\ received_data(Chan, buf).err # NoError

\* a close-notify of fatal level received on a live session: delivered once,
\* answered, the connection closed
C32_Witness ==
    /\ op.name = "received_data"
    /\ thrown = NoError
    /\ delivered = <<[data |-> <<>>, alert |-> Alert(CLOSE_NOTIFY, TRUE)]>>
    /\ output # <<>>
    /\ output[Len(output)].payload = <<1, CLOSE_NOTIFY>>
    /\ m_connection_closed
    /\ ~Has(m_read_cipherstate)
    /\ Get(m_sequence_numbers).write_epoch = 1

(***************************************************************************)
(* C33.  The loops of received_data end.                                   *)
(***************************************************************************)
\* the buffers a call may be given now: the next bytes of the stream
ChunksAhead ==
    { SubSeq(stream.bytes, stream.pos + 1, stream.pos + k) :
        k \in 1..(Len(stream.bytes) - stream.pos) }

\* a handshake record of two messages: msg and an empty hello request
TwoMessages(msg) == Wire(HANDSHAKE, TLS_V10, msg \o <<0, 0>>)

\* one turn of the record loop on buf: at least one byte is consumed; if the
\* record is not complete all of buf is, and the call returns the bytes
\* needed after this one turn
TurnAdvances(buf) ==
    LET rr == read_record(m_readbuf, buf, m_sequence_numbers)
        r == received_data(Chan, buf)
    IN  /\ rr.consumed \in 1..Len(buf)
        /\ rr.needed # 0 =>
              /\ rr.consumed = Len(buf)
              /\ r.err = NoError
              /\ r.ret = rr.needed
              /\ r.turns = 1

\* the call takes at most one turn per byte of buf, and leaves no complete
\* message in the reassembly buffer of a Pending state unless it failed
LoopsEnd(buf) ==
    LET r == received_data(Chan, buf)
    IN  /\ r.turns \in 1..Len(buf)
        /\ (r.err = NoError /\ Has(r.pending))
              => ~HasFullMessage(Get(r.pending).queue)

\* where the finished message ends the handshake, a message behind it in the
\* same record is not dispatched: the call ends as it does without it, the
\* message stays in the reassembly buffer of the state that is now Active
StopsAtActivation ==
    LET one == received_data(Chan, FinishedRecord)
        two == received_data(Chan, TwoMessages(FinishedMsg))
    IN  (/\ m_readbuf = <<>>
         /\ one.err = NoError
         /\ Len(FinishedMsg) + 2 <= m_max_fragment)
          => /\ ~Has(one.pending)
             /\ two = [one EXCEPT !.active =
                           Some([Get(one.active) EXCEPT !.queue = <<0, 0>>])]

\* where the hello leaves Pending in place, a message behind it in the same
\* record is dispatched (and refused)
GoesOnWithPending ==
    LET one == received_data(Chan, HelloRecord(side, TLS_V10, 4, <<>>))
        two == received_data(Chan, TwoMessages(HelloMsg(PeerHello(Chan), 4, <<>>)))
    IN  (/\ m_readbuf = <<>>
         /\ one.err = NoError
         /\ Has(one.pending)
         /\ Len(FinishedMsg) + 2 <= m_max_fragment)
          => two.err = Unexpected_Message

\* C33: every received_data call on a finite input ends: each turn of the
\* record loop consumes at least one byte of the input, or returns the bytes
\* still needed, or returns after a fatal alert, or fails, so that there are
\* no more turns than bytes; the loop over the handshake messages goes on
\* until no complete message is left or Pending is gone, and dispatches no
\* message once Pending is gone.
C33_ReceivedDataTerminates ==
    /\ \A buf \in ChunksAhead : TurnAdvances(buf) /\ LoopsEnd(buf)
    /\ LoopsEnd(TwoMessages(FinishedMsg))
    /\ StopsAtActivation
    /\ GoesOnWithPending

\* a call that ended in the middle of a record, during the handshake
C33_Witness ==
    /\ op.name = "received_data"
    /\ thrown = NoError
    /\ m_readbuf # <<>>
    /\ Has(m_pending_state)
    /\ Get(m_pending_state).ccs_read
    /\ ~Has(m_active_state)

====
